---- MODULE Spec2Model ----
(***************************************************************************)
(* A model of PyPapertrail: Archive.download (Archives.py), the Systems    *)
(* catalog and the Group operations (Systems.py, Group.py), the class      *)
(* Groups and the Papertrail facade, whose modules do not compile          *)
(* (Groups.py, Papertrail.py), load() of the collections, the request      *)
(* helpers (common.py) and the rate-limit state (RateLimits.py).           *)
(***************************************************************************)
EXTENDS Integers, Sequences, FiniteSets, TLC

None == "None"

(***************************************************************************)
(* Bounds of the model.                                                    *)
(***************************************************************************)
MaxBody == 2
MaxDepth == 2
MaxUnclosed == 1

VARIABLES
    downloading,      \* Archive._downloading
    is_downloaded,    \* Archive._is_downloaded
    download_path,    \* Archive._download_path
    fs,               \* the files of the destination directory: path -> content or None
    stack,            \* the download calls in progress, innermost last
    unclosed,         \* the file objects that ended calls left open, bytes in their buffer
    last              \* what the download call that has just terminated did

dlVars == <<downloading, is_downloaded, download_path, fs, stack, unclosed, last>>

VARIABLES
    now,              \* datetime.utcnow(), in ticks
    srvSystems,       \* the server's answer to GET systems.json: the ids, in order
    srvGroups,        \* the server's answer to GET groups.json: the records, in order
    srvArchives,      \* the server's answer to GET archives.json
    srvDestinations,  \* the server's answer to GET destinations.json
    SYSTEMS,          \* Systems._SYSTEMS: the one list object of the class attribute
    systems,          \* the Systems objects: the attributes each instance owns
    groups,           \* the Group object each name of the caller is bound to, if any
    archives,         \* the Archives objects
    destinations,     \* the Destinations objects
    loadCalled,       \* the collections on which load() has been called
    cls,              \* the class a run of the load specification exercises
    ll                \* what the collection call that has just ended did

VARIABLES
    limit,            \* RateLimits.limit
    remaining,        \* RateLimits.remaining
    reset             \* RateLimits.reset

rlVars == <<limit, remaining, reset>>

colVars == <<now, srvSystems, srvGroups, srvArchives, srvDestinations, SYSTEMS,
             systems, groups, archives, destinations, loadCalled, cls, ll,
             rlVars>>

(***************************************************************************)
(* Archive.download: src/Archives.py 146-255                               *)
(***************************************************************************)
ArchiveFileName == "a.gz"
Dirs == {"out"}
DirArgs == Dirs \cup {"nodir"}
FileNames == {"a.gz", "b.gz"}
FileNameArgs == {None, "b.gz"}
ChunkSizes == {1, 2}
Bytes(n) == [i \in 1..n |-> i]
Bodies == {Bytes(n) : n \in 0..MaxBody}
OldContent == <<9>>

\* os.path.join(destination_dir, file_name), line 197
Join(dir, name) == dir \o "/" \o name
Paths == {Join(d, n) : d \in Dirs, n \in FileNames}

\* os.path.isdir(destination_dir), line 190
IsDir(dir) == dir \in Dirs

DownloadArgs ==
    [dir : DirArgs, file_name : FileNameArgs, overwrite : BOOLEAN,
     callback : BOOLEAN, chunk_size : ChunkSizes]

\* What the environment answers to one call: open() and the GET.
DownloadEnvs ==
    {[open |-> "IOError", http |-> None, body |-> <<>>]}
    \cup {[open |-> "ok", http |-> h, body |-> <<>>] :
             h \in {"ReadTimeout", "RequestException", "HTTPError"}}
    \cup {[open |-> "ok", http |-> "ok", body |-> b] : b \in Bodies}

\* lines 194-197
EffectiveNameNoArg(args) == ArchiveFileName
EffectiveName(args) ==
    IF args.file_name = None THEN ArchiveFileName ELSE args.file_name

DownloadPath(args) == Join(args.dir, EffectiveName(args))

\* The content of the call's destination path (None: no such file).
FileAt(files, args) ==
    IF IsDir(args.dir) THEN files[DownloadPath(args)] ELSE None

\* line 205: open(download_path, 'wb') gives a buffered file object; its buffer has
\* the block size of the file system.
BufferSize == 4096

\* The file after a write of bytes at offset at: a gap is filled with zero bytes.
WriteAt(content, at, bytes) ==
    IF bytes = <<>> THEN content
    ELSE LET gap == IF at > Len(content) THEN [i \in 1..(at - Len(content)) |-> 0]
                    ELSE <<>>
             head == SubSeq(content \o gap, 1, at)
             tail == SubSeq(content, at + Len(bytes) + 1, Len(content))
         IN  head \o bytes \o tail

\* line 230: file_handle.write(chunk) on the file object h = [pos, buf], pos bytes of
\* which have reached the file.  A chunk that fits is kept in the buffer; otherwise
\* the buffer is written out, and the chunk after it when it is larger than the buffer.
FileWrite(h, content, chunk) ==
    IF Len(h.buf) + Len(chunk) <= BufferSize
    THEN [pos |-> h.pos, buf |-> h.buf \o chunk, content |-> content]
    ELSE LET c1 == WriteAt(content, h.pos, h.buf)
             p1 == h.pos + Len(h.buf)
         IN  IF Len(chunk) > BufferSize
             THEN [pos |-> p1 + Len(chunk), buf |-> <<>>,
                   content |-> WriteAt(c1, p1, chunk)]
             ELSE [pos |-> p1, buf |-> chunk, content |-> c1]

\* line 241, or the finalisation of a file object that was left open: the buffer is
\* written out.
Flushed(h, content) == WriteAt(content, h.pos, h.buf)

\* line 199: the destination exists and may not be overwritten.
PathBlocked(files, args) ==
    ~args.overwrite /\ files[DownloadPath(args)] # None

\* lines 183-224 without the re-entrancy check of lines 184-186:
\* flag: _downloading on entry.  Gives the call's outcome up to the first chunk.
EntryBody(flag, files, args, env) ==
    IF ~IsDir(args.dir)
    THEN [res |-> "NotADirectory", flag |-> FALSE, files |-> files,
          ops |-> <<"isdir">>, http |-> 0]
    ELSE LET p == DownloadPath(args)
             ops0 == IF args.overwrite THEN <<"isdir">> ELSE <<"isdir", "exists">>
         IN  IF PathBlocked(files, args)
             THEN [res |-> "AlreadyExists", flag |-> FALSE, files |-> files,
                   ops |-> ops0, http |-> 0]
             ELSE IF env.open = "IOError"
             THEN [res |-> "OpenFailed", flag |-> FALSE, files |-> files,
                   ops |-> Append(ops0, "open"), http |-> 0]
             ELSE LET files1 == [files EXCEPT ![p] = <<>>]
                      ops1 == Append(ops0, "open")
                  IN  CASE env.http = "ReadTimeout" ->
                             [res |-> "ReadTimeout", flag |-> TRUE, files |-> files1,
                              ops |-> ops1, http |-> 1]
                        [] env.http = "RequestException" ->
                             [res |-> "RequestException", flag |-> TRUE, files |-> files1,
                              ops |-> ops1, http |-> 1]
                        [] env.http = "HTTPError" ->
                             [res |-> "HTTPError", flag |-> FALSE, files |-> files1,
                              ops |-> ops1, http |-> 1]
                        [] OTHER ->
                             [res |-> "streaming", flag |-> TRUE, files |-> files1,
                              ops |-> ops1, http |-> 1]

EntryNoGuard(flag, files, args, env) == EntryBody(flag, files, args, env)

\* lines 183-224
Entry(flag, files, args, env) ==
    IF flag
    THEN [res |-> "AlreadyDownloading", flag |-> flag, files |-> files,
          ops |-> <<>>, http |-> 0]
    ELSE EntryBody(flag, files, args, env)

ArchiveFields == [downloading |-> downloading, is_downloaded |-> is_downloaded,
                  download_path |-> download_path]

NoCall ==
    [args |-> None, res |-> None, entryFlag |-> FALSE, depth |-> 0, ops |-> <<>>,
     http |-> 0, body |-> <<>>, cblog |-> <<>>, raised |-> None,
     download_size |-> 0, written_size |-> 0, ret |-> None,
     pre |-> None, post |-> None, preFile |-> None, postFile |-> None]

Top == stack[Len(stack)]
Pop == SubSeq(stack, 1, Len(stack) - 1)
SetTop(f) == [stack EXCEPT ![Len(stack)] = f]

\* A call made from inside the callback leaves its exception with the callback.
PopInto(caller) ==
    IF Len(caller) = 0 THEN caller
    ELSE [caller EXCEPT ![Len(caller)].reentered = TRUE]

\* The record of a call that ends in frame f with result res.
Ended(f, res, ret, flag2, isdl2, path2, files2) ==
    [args |-> f.args, res |-> res, entryFlag |-> f.entryFlag, depth |-> f.depth,
     ops |-> f.ops, http |-> f.http, body |-> f.body, cblog |-> f.cblog,
     raised |-> f.raised, download_size |-> f.download_size,
     written_size |-> f.written_size, ret |-> ret,
     pre |-> f.pre,
     post |-> [downloading |-> flag2, is_downloaded |-> isdl2, download_path |-> path2],
     preFile |-> f.preFile, postFile |-> FileAt(files2, f.args)]

\* download(...) is called: from outside, or from inside the running callback.
Download(args, env) ==
    /\ Len(stack) < MaxDepth
    /\ Len(stack) > 0 => (Top.pc = "callback" /\ ~Top.reentered)
    /\ LET r == Entry(downloading, fs, args, env)
           f == [args |-> args, entryFlag |-> downloading, depth |-> Len(stack),
                 ops |-> r.ops, http |-> r.http,
                 body |-> IF r.res = "streaming" THEN env.body ELSE <<>>,
                 rest |-> env.body, cblog |-> <<>>, raised |-> None,
                 download_size |-> 0, written_size |-> 0,
                 pos |-> 0, buf |-> <<>>,
                 pre |-> ArchiveFields, preFile |-> FileAt(fs, args),
                 pc |-> "stream", reentered |-> FALSE]
       IN  /\ downloading' = r.flag
           /\ fs' = r.files
           /\ UNCHANGED <<is_downloaded, download_path, unclosed>>
           /\ IF r.res = "streaming"
              THEN /\ stack' = Append(stack, f)
                   /\ last' = NoCall
              ELSE /\ stack' = PopInto(stack)
                   /\ last' = Ended(f, r.res, None, r.flag, is_downloaded,
                                    download_path, r.files)
    /\ UNCHANGED colVars

\* lines 229-233: the chunk is handed to write() before the callback sees the count.
WriteThenCall(f, chunk, w) ==
    LET ds == f.download_size + Len(chunk)
        ws == f.written_size + w
    IN  [f EXCEPT !.rest = SubSeq(f.rest, Len(chunk) + 1, Len(f.rest)),
                  !.download_size = ds,
                  !.written_size = ws,
                  !.cblog = IF f.args.callback
                            THEN Append(f.cblog, [count |-> ds, written |-> ws])
                            ELSE f.cblog,
                  !.pc = IF f.args.callback THEN "callback" ELSE "stream"]

\* line 230: what write() of the buffered binary file of line 205 returns for
\* n bytes: all of them, whether they are kept in the buffer or reach the file.
WriteResult(n) == {n}

\* lines 228-233: one iteration of the loop up to the callback's invocation.
\* w: what file_handle.write returns.
Chunk(w) ==
    /\ Len(stack) > 0
    /\ Top.pc = "stream"
    /\ Top.rest # <<>>
    /\ LET f == Top
           n == IF Len(f.rest) < f.args.chunk_size THEN Len(f.rest) ELSE f.args.chunk_size
           chunk == SubSeq(f.rest, 1, n)
           p == DownloadPath(f.args)
           wr == FileWrite(f, fs[p], SubSeq(chunk, 1, w))
       IN  /\ w \in WriteResult(n)
           /\ fs' = [fs EXCEPT ![p] = wr.content]
           /\ stack' = SetTop([WriteThenCall(f, chunk, w)
                                  EXCEPT !.pos = wr.pos, !.buf = wr.buf])
    /\ last' = NoCall
    /\ UNCHANGED <<downloading, is_downloaded, download_path, unclosed>>
    /\ UNCHANGED colVars

\* line 233: the callback returns.
CallbackReturn ==
    /\ Len(stack) > 0
    /\ Top.pc = "callback"
    /\ stack' = SetTop([Top EXCEPT !.pc = "stream", !.reentered = FALSE])
    /\ last' = NoCall
    /\ UNCHANGED <<downloading, is_downloaded, download_path, fs, unclosed>>
    /\ UNCHANGED colVars

CallbackExceptions == {"Exception", "SystemExit", "KeyboardInterrupt"}

FlagKeptAfterRaise(kind, flag) == flag

\* lines 234-239: what the flag is after the callback raised kind.
FlagAfterRaise(kind, flag) == IF kind = "Exception" THEN FALSE ELSE flag

\* The file object of a call that ends without line 241, when bytes are in its buffer.
LeftOpen(f) ==
    IF f.buf = <<>> THEN {}
    ELSE {[path |-> DownloadPath(f.args), pos |-> f.pos, buf |-> f.buf]}

\* lines 232-239: the callback raises.  No exit of the loop closes or flushes the file
\* object: the file holds what had left the buffer, the rest stays with the object.
CallbackRaise(kind) ==
    /\ Len(stack) > 0
    /\ Top.pc = "callback"
    /\ LET f == [Top EXCEPT !.raised = kind]
           flag2 == FlagAfterRaise(kind, downloading)
           res == IF kind = "Exception" THEN "CallbackError" ELSE kind
       IN  /\ Cardinality(unclosed \cup LeftOpen(f)) <= MaxUnclosed
           /\ downloading' = flag2
           /\ stack' = PopInto(Pop)
           /\ unclosed' = unclosed \cup LeftOpen(f)
           /\ last' = Ended(f, res, None, flag2, is_downloaded, download_path, fs)
    /\ UNCHANGED <<is_downloaded, download_path, fs>>
    /\ UNCHANGED colVars

\* The file objects a call can leave open: nothing has left their buffer.
Handles == [path : Paths, pos : {0}, buf : Bodies \ {<<>>}]

\* The interpreter finalises a file object that was left open, at a time of its own
\* choosing: the buffer is written at the object's position in the file.
Finalised(h) ==
    /\ h \in unclosed
    /\ fs' = [fs EXCEPT ![h.path] = Flushed(h, fs[h.path])]
    /\ unclosed' = unclosed \ {h}
    /\ last' = NoCall
    /\ UNCHANGED <<downloading, is_downloaded, download_path, stack>>
    /\ UNCHANGED colVars

\* lines 252-255: the state a completed download leaves.
Completed(f) ==
    [downloading |-> FALSE, is_downloaded |-> TRUE,
     download_path |-> DownloadPath(f.args),
     ret |-> <<TRUE, f.download_size, DownloadPath(f.args)>>]

\* lines 240-255: the stream is exhausted; close() writes the buffer out.
Finish ==
    /\ Len(stack) > 0
    /\ Top.pc = "stream"
    /\ Top.rest = <<>>
    /\ LET f == Top
           p == DownloadPath(f.args)
           closed == [fs EXCEPT ![p] = Flushed(f, fs[p])]
       IN  /\ fs' = closed
           /\ IF f.download_size # f.written_size
              THEN /\ downloading' = FALSE
                   /\ UNCHANGED <<is_downloaded, download_path>>
                   /\ last' = Ended(f, "SizeMismatch", None, FALSE, is_downloaded,
                                    download_path, closed)
              ELSE LET c == Completed(f)
                   IN  /\ downloading' = c.downloading
                       /\ is_downloaded' = c.is_downloaded
                       /\ download_path' = c.download_path
                       /\ last' = Ended(f, "ok", c.ret, c.downloading, c.is_downloaded,
                                        c.download_path, closed)
    /\ stack' = PopInto(Pop)
    /\ UNCHANGED unclosed
    /\ UNCHANGED colVars

\* lines 49-50, 64, 94-95: a fresh Archive; the directory holds one older file.
InitArchive ==
    /\ downloading = FALSE
    /\ is_downloaded = FALSE
    /\ download_path = None
    /\ fs = [p \in Paths |-> IF p = Join("out", "b.gz") THEN OldContent ELSE None]
    /\ stack = <<>>
    /\ unclosed = {}
    /\ last = NoCall

NextDownload ==
    \/ \E args \in DownloadArgs, env \in DownloadEnvs : Download(args, env)
    \/ \E w \in 0..MaxBody : Chunk(w)
    \/ CallbackReturn
    \/ \E kind \in CallbackExceptions : CallbackRaise(kind)
    \/ Finish
    \/ \E h \in Handles : Finalised(h)

(***************************************************************************)
(* The collections: Systems (Systems.py), Archives (Archives.py) and       *)
(* Destinations (Destinations.py); the Group objects (Group.py).           *)
(***************************************************************************)
MaxCatalog == 4
MaxClock == 2

\* Archives.py 353, Destinations.py 164: the class-level lists.  load() rebinds the
\* instance's own list before it appends, so these stay empty.
ARCHIVES == <<>>
DESTINATIONS == <<>>
\* Archives.py 354-355, Destinations.py 165-166, Systems.py 356-357
IS_LOADED == FALSE
LAST_FETCHED == <<>>

\* The user's two instances of a collection class; the module Group holds a Systems
\* instance of its own (Group.py 28, 85-86), built with do_load=False.
Insts == {"a", "b"}
SysInsts == Insts \cup {"Group"}

\* An instance built with do_load=False owns no attribute: every read falls
\* through to the class attribute.
Fresh == [own |-> FALSE, items |-> <<>>, loaded |-> <<>>, fetched |-> <<>>]
Items(classList, obj) == IF obj.own THEN obj.items ELSE classList
IsLoaded(obj) == IF obj.loaded = <<>> THEN IS_LOADED ELSE obj.loaded[1]
LastFetched(obj) == IF obj.fetched = <<>> THEN LAST_FETCHED ELSE obj.fetched

\* datetime.utcnow().replace(tzinfo=timezone.utc) / pytz.utc.localize(datetime.utcnow())
StampEpoch(t) == <<[t |-> 0, tz |-> "UTC"]>>
Stamp(t) == <<[t |-> t, tz |-> "UTC"]>>

\* A record of a list response that lacks a key or has a value the item's
\* constructor rejects.
Malformed == 0 - 1
SysIds == {0, 1, 2}
First(S) == CHOOSE k \in S : \A j \in S : k <= j
\* the items built before the first record whose constructor raises
ValidPrefix(resp) ==
    LET bad == {k \in 1..Len(resp) : resp[k] = Malformed}
    IN  IF bad = {} THEN resp ELSE SubSeq(resp, 1, First(bad) - 1)

ListResponses ==
    {<<>>, <<0>>, <<0, 1>>, <<1, 0>>, <<0, Malformed>>}
LoadEnvs == [get : {"ok", "RequestError"}, dt : 0..1]

\* Archives.load, Archives.py 424-461; Destinations.load, Destinations.py 237-252:
\* a fresh list, the items, then the flag and the stamp.
ReplaceLoaded(obj, resp, t) ==
    LET built == ValidPrefix(resp)
    IN  IF built = resp
        THEN [res |-> "ok",
              obj |-> [own |-> TRUE, items |-> built, loaded |-> <<TRUE>>,
                       fetched |-> Stamp(t)]]
        ELSE [res |-> "ItemError", obj |-> [obj EXCEPT !.own = TRUE, !.items = built]]

\* Systems.load, Systems.py 427-438: the stamp, then every item is appended to
\* self._SYSTEMS (the class's list unless the instance owns one), then the flag.
AppendTo(list, built) == list \o built
SystemsLoaded(list, obj, resp, t) ==
    LET built == ValidPrefix(resp)
        l2 == AppendTo(Items(list, obj), built)
        o1 == [obj EXCEPT !.fetched = Stamp(t), !.items = IF obj.own THEN l2 ELSE @]
    IN  [res |-> IF built = resp THEN "ok" ELSE "ItemError",
         list |-> IF obj.own THEN list ELSE l2,
         obj |-> IF built = resp THEN [o1 EXCEPT !.loaded = <<TRUE>>] ELSE o1]

\* The call that has just ended: what it was given, how it ended, the requests it
\* sent after its GETs, and the list it works on before and after.
NoTarget == [kind |-> None, id |-> 0, name |-> ""]
Call(op, c, i, res, pre, post) ==
    [op |-> op, cls |-> c, inst |-> i, res |-> res, pre |-> pre, post |-> post,
     at |-> 0, resp |-> <<>>, target |-> NoTarget, resolved |-> Malformed,
     answer |-> None, sent |-> <<>>, catalog |-> <<>>, was |-> <<>>]
NoOp == Call(None, None, None, None, <<>>, <<>>)
LoadCall(c, i, res, at, resp, post) ==
    [Call("load", c, i, res, <<>>, post) EXCEPT !.at = at, !.resp = resp]
\* What the properties of a collection report: its items, is_loaded, last_fetched.
View(classList, obj) ==
    [items |-> Items(classList, obj), is_loaded |-> IsLoaded(obj),
     last_fetched |-> LastFetched(obj)]

ArchivesLoad(i, env) ==
    LET t2 == now + env.dt
        r == IF env.get = "ok" THEN ReplaceLoaded(archives[i], srvArchives, t2)
             ELSE [res |-> env.get, obj |-> archives[i]]
    IN  /\ t2 <= MaxClock
        /\ now' = t2
        /\ archives' = [archives EXCEPT ![i] = r.obj]
        /\ loadCalled' = loadCalled \cup {<<"Archives", i>>}
        /\ ll' = [LoadCall("Archives", i, r.res, now, srvArchives,
                           Items(ARCHIVES, r.obj))
                     EXCEPT !.was = <<View(ARCHIVES, archives[i])>>]
        /\ UNCHANGED <<dlVars, srvSystems, srvGroups, srvArchives, srvDestinations, SYSTEMS,
                       systems, groups, destinations, cls, rlVars>>

DestinationsLoad(i, env) ==
    LET t2 == now + env.dt
        r == IF env.get = "ok" THEN ReplaceLoaded(destinations[i], srvDestinations, t2)
             ELSE [res |-> env.get, obj |-> destinations[i]]
    IN  /\ t2 <= MaxClock
        /\ now' = t2
        /\ destinations' = [destinations EXCEPT ![i] = r.obj]
        /\ loadCalled' = loadCalled \cup {<<"Destinations", i>>}
        /\ ll' = [LoadCall("Destinations", i, r.res, now, srvDestinations,
                           Items(DESTINATIONS, r.obj))
                     EXCEPT !.was = <<View(DESTINATIONS, destinations[i])>>]
        /\ UNCHANGED <<dlVars, srvSystems, srvGroups, srvArchives, srvDestinations, SYSTEMS,
                       systems, groups, archives, cls, rlVars>>

SystemsLoad(i, env) ==
    LET t2 == now + env.dt
        r == IF env.get = "ok" THEN SystemsLoaded(SYSTEMS, systems[i], srvSystems, t2)
             ELSE [res |-> env.get, list |-> SYSTEMS, obj |-> systems[i]]
    IN  /\ t2 <= MaxClock
        /\ Len(Items(SYSTEMS, systems[i])) + Len(srvSystems) <= MaxCatalog
        /\ now' = t2
        /\ SYSTEMS' = r.list
        /\ systems' = [systems EXCEPT ![i] = r.obj]
        /\ loadCalled' = loadCalled \cup {<<"Systems", i>>}
        /\ ll' = [LoadCall("Systems", i, r.res, now, srvSystems,
                           Items(r.list, r.obj))
                     EXCEPT !.was = <<View(SYSTEMS, systems[i])>>]
        /\ UNCHANGED <<dlVars, srvSystems, srvGroups, srvArchives, srvDestinations,
                       groups, archives, destinations, cls, rlVars>>

Member(x, seq) == \E k \in 1..Len(seq) : seq[k] = x

\* Group.__from_raw_group__, Group.py 97-131, once the catalog is loaded: the
\* fields, then each member by _SYSTEMS[raw_system['id']], which Systems.__getitem__
\* (Systems.py 582-583) answers with the list's item at that position.  Past the
\* end the IndexError handler calls _SYSTEMS.reload(), which Systems does not have.
Unresolved(cat, ids) == {k \in 1..Len(ids) : ids[k] >= Len(cat)}
FromRawGroup(raw, cat) ==
    LET bad == Unresolved(cat, raw.systems)
        n == IF bad = {} THEN Len(raw.systems) ELSE First(bad) - 1
    IN  [res |-> IF bad = {} THEN "ok" ELSE "AttributeError",
         group |-> [id |-> raw.id, name |-> raw.name,
                    system_wildcard |-> raw.system_wildcard, link |-> raw.link,
                    systems |-> [k \in 1..n |-> cat[raw.systems[k] + 1]]]]

\* What a call that builds a Group did with the catalog of Group.py: whether the
\* catalog was loaded when the call began, the items it held then, and how often the
\* call loaded it.
CatalogUse(cat, list, loads) ==
    <<[loaded |-> IsLoaded(cat), before |-> Items(list, cat), loads |-> loads]>>

\* Group.py 76-82: the fields of a Group before it is populated.
NewGroup ==
    [id |-> 0 - 1, name |-> "", system_wildcard |-> <<>>, link |-> "", systems |-> <<>>]

\* Group.__from_raw_group__, Group.py 97-131, on the Group g: when the catalog of
\* Group.py is not loaded it is loaded first (104-109, a GET of systems.json that
\* the server answers with sys or that fails), then the fields and the members.
Populated(g, raw, sys, get) ==
    LET cat == systems["Group"]
        needCat == ~IsLoaded(cat)
        c == IF needCat /\ get = "ok" THEN SystemsLoaded(SYSTEMS, cat, sys, now)
             ELSE [res |-> IF needCat THEN get ELSE "ok", list |-> SYSTEMS, obj |-> cat]
        b == FromRawGroup(raw, Items(c.list, c.obj))
    IN  [res |-> IF c.res # "ok" THEN c.res ELSE b.res,
         group |-> IF c.res # "ok" THEN g ELSE b.group,
         list |-> c.list, cat |-> c.obj, loads |-> IF needCat THEN 1 ELSE 0]

BuildEnvs == {"ok", "RequestError"}

\* Group(api_key, raw_group=raw, last_fetched=...), Group.py 55-92, on the k-th
\* record of the server's list: the caller's name i is bound to the new Group
\* unless the constructor raises.
GroupNew(i, k, get) ==
    /\ k \in 1..Len(srvGroups)
    /\ LET cat == systems["Group"]
           raw == srvGroups[k]
           p == Populated(NewGroup, raw, srvSystems, get)
       IN  /\ p.loads = 1 => Len(Items(SYSTEMS, cat)) + Len(srvSystems) <= MaxCatalog
           /\ SYSTEMS' = p.list
           /\ systems' = [systems EXCEPT !["Group"] = p.cat]
           /\ groups' = IF p.res = "ok" THEN [groups EXCEPT ![i] = <<p.group>>]
                        ELSE groups
           /\ loadCalled' =
                 loadCalled \cup (IF p.loads = 1 THEN {<<"Systems", "Group">>} ELSE {})
           /\ ll' = [Call("build", "Group", i, p.res, <<>>,
                          IF p.res = "ok" THEN <<p.group>> ELSE <<>>)
                        EXCEPT !.resp = <<raw>>,
                               !.catalog = CatalogUse(cat, SYSTEMS, p.loads)]
    /\ UNCHANGED <<dlVars, now, srvSystems, srvGroups, srvArchives, srvDestinations,
                   archives, destinations, cls, rlVars>>

\* Group.__from_dict__, Group.py 133-156: the fields of the snapshot, then each
\* member by _SYSTEMS[sys_id], the catalog's item at that position; the catalog is
\* not loaded for it, and past the end the IndexError leaves the constructor.
FromDict(d, cat) ==
    LET bad == Unresolved(cat, d.system_ids)
    IN  [res |-> IF bad = {} THEN "ok" ELSE "IndexError",
         group |-> [id |-> d.id, name |-> d.name, system_wildcard |-> d.wildcard,
                    link |-> d.self_link,
                    systems |-> IF bad # {} THEN <<>>
                                ELSE [k \in 1..Len(d.system_ids) |->
                                         cat[d.system_ids[k] + 1]]]]

\* Group.__to_dict__, Group.py 158-177
ToDict(g) ==
    [id |-> g.id, name |-> g.name, wildcard |-> g.system_wildcard, self_link |-> g.link,
     system_ids |-> g.systems]

\* Group(api_key, from_dict=d), Group.py 55-92
GroupFromDict(i, d) ==
    LET cat == systems["Group"]
        r == FromDict(d, Items(SYSTEMS, cat))
    IN  /\ groups' = IF r.res = "ok" THEN [groups EXCEPT ![i] = <<r.group>>] ELSE groups
        /\ ll' = [Call("restore", "Group", i, r.res, <<>>,
                       IF r.res = "ok" THEN <<r.group>> ELSE <<>>)
                     EXCEPT !.resp = <<d>>, !.catalog = CatalogUse(cat, SYSTEMS, 0)]
        /\ UNCHANGED <<dlVars, now, srvSystems, srvGroups, srvArchives, srvDestinations,
                       SYSTEMS, systems, archives, destinations, loadCalled, cls, rlVars>>

(***************************************************************************)
(* Group.add_system, Group.remove_system, Group.reload (Group.py) and the  *)
(* class Groups (Groups.py)                                                *)
(***************************************************************************)
SysName(id) == "sys" \o ToString(id)
GroupLink(id) == "groups/" \o ToString(id) \o ".json"
NotFound == 0 - 1

\* sys_to_add / sys_to_del: a System object, an int or a str
SystemTargets ==
    [kind : {"System", "int"}, id : SysIds, name : {""}]
    \cup [kind : {"str"}, id : {0}, name : {SysName(s) : s \in SysIds}]

\* Group.py 206-213 and 252-257: a System is looked for with `in`, which compares
\* ids (System.__eq__, Systems.py 242-248); an int is a position and a str a name
\* (Systems.__getitem__, Systems.py 577-583).  NotFound stands for the IndexError.
Resolve(target, cat) ==
    CASE target.kind = "System" ->
            IF Member(target.id, cat) THEN target.id ELSE NotFound
      [] target.kind = "int" ->
            IF target.id < Len(cat) THEN cat[target.id + 1] ELSE NotFound
      [] target.kind = "str" ->
            LET hits == {k \in 1..Len(cat) : SysName(cat[k]) = target.name}
            IN  IF hits = {} THEN NotFound ELSE cat[First(hits)]

\* list.remove(x): the first item equal to x goes
RemoveAt(seq, k) == SubSeq(seq, 1, k - 1) \o SubSeq(seq, k + 1, Len(seq))
RemoveFirst(seq, x) ==
    RemoveAt(seq, First({k \in 1..Len(seq) : seq[k] = x}))

\* What the server does with a join and a leave it answers "System updated".
SrvJoin(gs, gid, s) ==
    LET hits == {k \in 1..Len(gs) : gs[k].id = gid /\ ~Member(s, gs[k].systems)}
    IN  IF hits = {} THEN gs ELSE [gs EXCEPT ![First(hits)].systems = Append(@, s)]
SrvLeave(gs, gid, s) ==
    LET hits == {k \in 1..Len(gs) : gs[k].id = gid}
    IN  IF hits = {} THEN gs
        ELSE [gs EXCEPT ![First(hits)].systems = SelectSeq(@, LAMBDA x : x # s)]

\* A call that sends two requests leaves the server to other clients in between:
\* one of them may register or remove a system, or move a system into or out of
\* the group.
OtherIds == {2}
Others ==
    [op : {"none"}, s : {0}]
    \cup [op : {"register", "remove", "join", "leave"}, s : OtherIds]
NoOther == [op |-> "none", s |-> 0]
SystemOthers == {o \in Others : o.op \in {"none", "register", "remove"}}
GroupOthers == {o \in Others : o.op \in {"none", "join", "leave"}}
SystemsAfter(sys, other) ==
    CASE other.op = "register" /\ ~Member(other.s, sys) -> Append(sys, other.s)
      [] other.op = "remove" -> SelectSeq(sys, LAMBDA x : x # other.s)
      [] OTHER -> sys
GroupsAfter(gs, gid, other) ==
    CASE other.op = "join" -> SrvJoin(gs, gid, other.s)
      [] other.op = "leave" -> SrvLeave(gs, gid, other.s)
      [] OTHER -> gs

\* requests_post (common.py) raises, or returns the decoded answer.
PostAnswers == {"RequestError", "System updated", "Other", "NoMessage"}
AddEnvs ==
    [post : PostAnswers, get : {"ok"}]
    \cup {[post |-> "System updated", get |-> "RequestError"]}
JoinRequest(s, gid) ==
    [method |-> "POST", url |-> "systems/" \o ToString(s) \o "/join.json",
     group_id |-> gid]
LeaveRequest(s, gid) ==
    [method |-> "POST", url |-> "systems/" \o ToString(s) \o "/leave.json",
     group_id |-> gid]

\* Group.py 223-229 and 271-276
MessageCheck(answer, expected) ==
    IF answer = "RequestError" THEN "RequestError"
    ELSE IF answer = expected THEN "ok" ELSE "InvalidServerResponse"

\* The record the server holds under the self link of g, if any.
Record(g, gs) ==
    LET hits == {k \in 1..Len(gs) : gs[k].link = g.link}
    IN  IF hits = {} THEN <<>> ELSE <<gs[First(hits)]>>

\* Group.reload, Group.py 283-293, with the catalog loaded: GET the self link and
\* load the record.
Reloaded(g, gs, catList, get) ==
    IF get # "ok" \/ Record(g, gs) = <<>> THEN [res |-> "RequestError", group |-> g]
    ELSE FromRawGroup(Record(g, gs)[1], catList)

GroupCall(op, i, s, answer, sent, res, pre, post) ==
    [Call(op, "Group", i, res, pre, post) EXCEPT
        !.resolved = s, !.answer = answer, !.sent = sent]

ReloadEnvs == [get : {"ok", "RequestError"}, cat : {"ok", "RequestError"}]

\* Group.reload, Group.py 283-293: GET the self link, then __from_raw_group__,
\* which sends a second request when the catalog is not loaded.
GroupReload(i, env, other) ==
    /\ groups[i] # <<>>
    /\ LET g == groups[i][1]
           cat == systems["Group"]
           rec == IF env.get = "ok" THEN Record(g, srvGroups) ELSE <<>>
           two == rec # <<>> /\ ~IsLoaded(cat)
           sys2 == IF two THEN SystemsAfter(srvSystems, other) ELSE srvSystems
           p == IF rec # <<>> THEN Populated(g, rec[1], sys2, env.cat)
                ELSE [res |-> "RequestError", group |-> g, list |-> SYSTEMS, cat |-> cat,
                      loads |-> 0]
       IN  /\ ~two => (other.op = "none" /\ env.cat = "ok")
           /\ p.loads = 1 => Len(Items(SYSTEMS, cat)) + Len(sys2) <= MaxCatalog
           /\ srvSystems' = sys2
           /\ SYSTEMS' = p.list
           /\ systems' = [systems EXCEPT !["Group"] = p.cat]
           /\ groups' = [groups EXCEPT ![i] = <<p.group>>]
           /\ loadCalled' =
                 loadCalled \cup (IF p.loads = 1 THEN {<<"Systems", "Group">>} ELSE {})
           /\ ll' = [Call("reload", "Group", i, p.res, <<g>>, <<p.group>>)
                        EXCEPT !.resp = rec,
                               !.catalog = CatalogUse(cat, SYSTEMS, p.loads)]
    /\ UNCHANGED <<dlVars, now, srvGroups, srvArchives, srvDestinations, archives,
                   destinations, cls, rlVars>>

\* Group.add_system, Group.py 182-231: the catalog check, the join POST, the
\* answer's message, then self.reload() with its own GET.
AddSystem(i, target, env, other) ==
    /\ groups[i] # <<>>
    /\ LET g == groups[i][1]
           cat == systems["Group"]
           catList == Items(SYSTEMS, cat)
           s == IF IsLoaded(cat) THEN Resolve(target, catList) ELSE NotFound
           early == IF ~IsLoaded(cat) THEN "AttributeError"
                    ELSE IF s = NotFound THEN "IndexError"
                    ELSE IF Member(s, g.systems) THEN "GroupError" ELSE "ok"
           posted == MessageCheck(env.post, "System updated")
           joined == early = "ok" /\ posted = "ok"
           srv2 == IF joined THEN GroupsAfter(SrvJoin(srvGroups, g.id, s), g.id, other)
                   ELSE srvGroups
           r == IF joined THEN Reloaded(g, srv2, catList, env.get)
                ELSE [res |-> IF early # "ok" THEN early ELSE posted, group |-> g]
       IN  /\ ~joined => other.op = "none"
           /\ srvGroups' = srv2
           /\ groups' = [groups EXCEPT ![i] = <<r.group>>]
           /\ ll' = [GroupCall("add_system", i, s,
                               IF early = "ok" THEN env.post ELSE None,
                               IF early = "ok" THEN <<JoinRequest(s, g.id)>> ELSE <<>>,
                               r.res, g.systems, r.group.systems)
                        EXCEPT !.resp = IF joined /\ env.get = "ok" THEN Record(g, srv2)
                                        ELSE <<>>,
                               !.catalog = CatalogUse(cat, SYSTEMS, 0)]
    /\ UNCHANGED <<dlVars, now, srvSystems, srvArchives, srvDestinations, SYSTEMS, systems,
                   archives, destinations, loadCalled, cls, rlVars>>

\* Group.remove_system, Group.py 233-278
RemoveSystem(i, target, answer) ==
    /\ groups[i] # <<>>
    /\ LET g == groups[i][1]
           cat == systems["Group"]
           s == Resolve(target, Items(SYSTEMS, cat))
           early == IF s = NotFound THEN "IndexError"
                    ELSE IF ~Member(s, g.systems) THEN "GroupError" ELSE "ok"
           posted == MessageCheck(answer, "System updated")
           done == early = "ok" /\ posted = "ok"
           g2 == IF done THEN [g EXCEPT !.systems = RemoveFirst(@, s)] ELSE g
       IN  /\ srvGroups' = IF done THEN SrvLeave(srvGroups, g.id, s) ELSE srvGroups
           /\ groups' = [groups EXCEPT ![i] = <<g2>>]
           /\ ll' = [GroupCall("remove_system", i, s,
                               IF early = "ok" THEN answer ELSE None,
                               IF early = "ok" THEN <<LeaveRequest(s, g.id)>> ELSE <<>>,
                               IF early # "ok" THEN early ELSE posted,
                               g.systems, g2.systems)
                        EXCEPT !.catalog = CatalogUse(cat, SYSTEMS, 0)]
    /\ UNCHANGED <<dlVars, now, srvSystems, srvArchives, srvDestinations, SYSTEMS, systems,
                   archives, destinations, loadCalled, cls, rlVars>>

\* group_idx / the new group: a Group, an int (an id) or a str (a name)
GroupIds == 1..3
GroupNames == {"A", "B"}
GroupTargets ==
    [kind : {"Group"}, id : GroupIds, name : {""}]
    \cup [kind : {"int"}, id : GroupIds, name : {""}]
    \cup [kind : {"str"}, id : {0}, name : GroupNames \cup {"C"}]

\* Groups.py 50 and 62: Groups.__init__ declares _SYSTEMS global and afterwards
\* assigns it with an annotation, which the compiler refuses ("annotated name
\* '_SYSTEMS' can't be global").  Importing Groups raises SyntaxError, and so does
\* importing Papertrail, whose line 10 imports Groups.
ImportGroups == "SyntaxError"

\* What a statement on the class Groups leaves: the import ends it before any of
\* it runs; no request is sent and no object changes.
GroupsCall(op, i, target) ==
    [Call(op, "Groups", i, ImportGroups, <<>>, <<>>) EXCEPT !.target = target]

\* Groups.load, Groups.py 112-127
GroupsLoad(i) ==
    /\ ll' = GroupsCall("load", i, NoTarget)
    /\ UNCHANGED <<dlVars, now, srvSystems, srvGroups, srvArchives, srvDestinations,
                   SYSTEMS, systems, groups, archives, destinations, loadCalled, cls,
                   rlVars>>

\* Groups.delete, Groups.py 197-238
GroupsDelete(i, target) ==
    /\ ll' = GroupsCall("delete", i, target)
    /\ UNCHANGED <<dlVars, now, srvSystems, srvGroups, srvArchives, srvDestinations,
                   SYSTEMS, systems, groups, archives, destinations, loadCalled, cls,
                   rlVars>>

\* Groups.create, Groups.py 136-195
GroupsCreate(i, target) ==
    /\ ll' = GroupsCall("create", i, target)
    /\ UNCHANGED <<dlVars, now, srvSystems, srvGroups, srvArchives, srvDestinations,
                   SYSTEMS, systems, groups, archives, destinations, loadCalled, cls,
                   rlVars>>

\* Papertrail(api_key, from_dict=..., do_load=...), Papertrail.py 38-82: the
\* module's line 10 imports Groups, so no statement of the class runs.
PapertrailNew(from_dict, do_load) ==
    /\ ll' = [Call("Papertrail", "Papertrail", "a", ImportGroups, <<>>, <<>>)
                 EXCEPT !.target = [from_dict |-> from_dict, do_load |-> do_load]]
    /\ UNCHANGED <<dlVars, now, srvSystems, srvGroups, srvArchives, srvDestinations,
                   SYSTEMS, systems, groups, archives, destinations, loadCalled, cls,
                   rlVars>>


(***************************************************************************)
(* The server's lists, and the specifications.                             *)
(***************************************************************************)
SrvSystemLists == {<<1, 0>>, <<0, 2>>}
Range(seq) == {seq[k] : k \in 1..Len(seq)}
MemberLists(ids) ==
    {<<>>} \cup {<<a>> : a \in ids}
    \cup ({<<a, b>> : a \in ids, b \in ids} \ {<<a, a>> : a \in ids})
ServerGroup(id, name, members) ==
    [id |-> id, name |-> name, system_wildcard |-> <<>>, systems |-> members,
     link |-> GroupLink(id)]
\* The snapshots of group 1 that __to_dict__ can have written.
Snapshots == {ToDict(ServerGroup(1, "A", m)) : m \in MemberLists({0, 1})}
Classes == {"Archives", "Destinations", "Systems", "Groups"}
\* The classes whose module compiles.
Importable == Classes \ {"Groups"}

\* Every collection object is built with do_load=False and no snapshot; no Group
\* has been built.
InitCollections ==
    /\ now = 0
    /\ SYSTEMS = <<>>
    /\ systems = [i \in SysInsts |-> Fresh]
    /\ groups = [i \in Insts |-> <<>>]
    /\ archives = [i \in Insts |-> Fresh]
    /\ destinations = [i \in Insts |-> Fresh]
    /\ loadCalled = {}
    /\ ll = NoOp
    /\ limit = <<>>
    /\ remaining = <<>>
    /\ reset = <<>>

NoServer ==
    /\ srvSystems = <<>>
    /\ srvGroups = <<>>
    /\ srvArchives = <<>>
    /\ srvDestinations = <<>>

\* The server's list changes between two calls.
ServerChanges ==
    /\ ll' = NoOp
    /\ \/ /\ cls = "Archives"
          /\ \E r \in ListResponses \ {srvArchives} : srvArchives' = r
          /\ UNCHANGED <<srvSystems, srvGroups, srvDestinations>>
       \/ /\ cls = "Destinations"
          /\ \E r \in ListResponses \ {srvDestinations} : srvDestinations' = r
          /\ UNCHANGED <<srvSystems, srvGroups, srvArchives>>
       \/ /\ cls = "Systems"
          /\ \E r \in ListResponses \ {srvSystems} : srvSystems' = r
          /\ UNCHANGED <<srvArchives, srvGroups, srvDestinations>>
    /\ UNCHANGED <<dlVars, now, SYSTEMS, systems, groups, archives, destinations, loadCalled,
                   cls, rlVars>>

InitGroup ==
    /\ InitArchive
    /\ InitCollections
    /\ cls = "Group"
    /\ srvSystems \in SrvSystemLists
    /\ \E m \in {<<>>, <<srvSystems[2]>>, srvSystems} :
          srvGroups = <<ServerGroup(1, "A", m)>>
    /\ srvArchives = <<>>
    /\ srvDestinations = <<>>

\* The targets given as a System or as a position.
DirectTargets == {t \in SystemTargets : t.kind \in {"System", "int"}}

NextGroup ==
    \/ \E env \in {e \in LoadEnvs : e.dt = 0} : SystemsLoad("a", env)
    \/ \E get \in BuildEnvs : GroupNew("a", 1, get)
    \/ \E d \in Snapshots : GroupFromDict("a", d)
    \/ \E env \in ReloadEnvs, other \in SystemOthers : GroupReload("a", env, other)
    \/ \E target \in DirectTargets, env \in AddEnvs :
          \E other \in (IF env.post = "System updated" THEN GroupOthers ELSE {NoOther}) :
             AddSystem("a", target, env, other)
    \/ \E target \in DirectTargets, answer \in PostAnswers :
          RemoveSystem("a", target, answer)

InitLoad ==
    /\ InitArchive
    /\ InitCollections
    /\ cls \in Classes \cup {"Papertrail"}
    /\ srvSystems = <<>>
    /\ srvGroups = <<>>
    /\ srvArchives = <<>>
    /\ srvDestinations = <<>>

NextLoad ==
    \/ ServerChanges
    \/ cls = "Archives" /\ \E i \in Insts, env \in LoadEnvs : ArchivesLoad(i, env)
    \/ cls = "Destinations" /\ \E i \in Insts, env \in LoadEnvs : DestinationsLoad(i, env)
    \/ cls = "Systems" /\ \E i \in Insts, env \in LoadEnvs : SystemsLoad(i, env)
    \/ cls = "Groups" /\ \E i \in Insts : GroupsLoad(i)
    \/ cls = "Groups" /\ \E i \in Insts, target \in GroupTargets : GroupsDelete(i, target)
    \/ cls = "Papertrail" /\ \E from_dict \in {<<>>, <<"snapshot">>}, do_load \in BOOLEAN :
          PapertrailNew(from_dict, do_load)

vars == <<dlVars, colVars>>

\* One Archive, and no collection in use.
InitDownload ==
    /\ InitArchive
    /\ InitCollections
    /\ NoServer
    /\ cls = "Archive"

SpecDownload == InitDownload /\ [][NextDownload]_vars
SpecGroup == InitGroup /\ [][NextGroup]_vars
SpecLoad == InitLoad /\ [][NextLoad]_vars

(***************************************************************************)
(* Properties of Archive.download, read off the call that has just ended.  *)
(***************************************************************************)
Ended1 == last.res # None
ArchiveErrors == {"AlreadyDownloading", "NotADirectory", "AlreadyExists",
                  "OpenFailed", "CallbackError", "SizeMismatch"}

\* C1: a download call made while the Archive's in-progress flag is set fails with
\* "Already downloading.", performs no filesystem action and no HTTP request, and
\* leaves the in-progress flag, the downloaded flag and the download path unchanged.
C1_ReentrantCallRejected ==
    (Ended1 /\ last.entryFlag) =>
        /\ last.res = "AlreadyDownloading"
        /\ last.ops = <<>>
        /\ last.http = 0
        /\ last.post = last.pre
        /\ last.postFile = last.preFile

\* The second call was made from inside the progress callback of the first.
C1_Witness ==
    /\ last.res = "AlreadyDownloading"
    /\ last.depth = 1
    /\ Len(stack) = 1
    /\ Top.pc = "callback"

\* C2: a call with overwrite=False whose destination path exists fails with
\* ArchiveError before the file is opened and before any HTTP request, leaves the
\* file's content unchanged and leaves the in-progress flag clear; with overwrite=True
\* on an existing path a successful call leaves exactly the downloaded payload in the
\* file.
C2_OverwriteGuard ==
    Ended1 =>
        /\ (~last.args.overwrite /\ last.preFile # None) =>
              /\ last.res \in ArchiveErrors
              /\ \A i \in 1..Len(last.ops) : last.ops[i] # "open"
              /\ last.http = 0
              /\ last.postFile = last.preFile
              /\ ~last.post.downloading
        /\ (last.args.overwrite /\ last.preFile # None /\ last.res = "ok") =>
              last.postFile = last.body

CeilDiv(n, c) == (n + c - 1) \div c
Least(a, b) == IF a < b THEN a ELSE b

\* C3: a successful download of N bytes in k chunks with a callback invokes the
\* callback exactly k times, each time after the chunk was written, with strictly
\* increasing cumulative counts ending at N, and the file holds exactly the N bytes.
C3_CallbackPerChunk ==
    (last.res = "ok" /\ last.args.callback) =>
        LET N == Len(last.body)
            c == last.args.chunk_size
            log == last.cblog
        IN  /\ Len(log) = CeilDiv(N, c)
            /\ \A i \in 1..Len(log) :
                  /\ log[i].count = Least(i * c, N)
                  /\ log[i].written = log[i].count
            /\ \A i \in 1..(Len(log) - 1) : log[i].count < log[i + 1].count
            /\ Len(log) > 0 => log[Len(log)].count = N
            /\ Len(last.postFile) = N
            /\ last.postFile = last.body

\* C4: a download that completes leaves is_downloading false, is_downloaded true and
\* download_path = destination_dir joined with the effective file name, and returns
\* (True, total bytes, that path); a download call that fails never sets is_downloaded.
C4_SuccessState ==
    Ended1 =>
        LET name == IF last.args.file_name = None THEN "a.gz" ELSE last.args.file_name
            path == last.args.dir \o "/" \o name
        IN  /\ last.res = "ok" =>
                  /\ last.post = [downloading |-> FALSE, is_downloaded |-> TRUE,
                                  download_path |-> path]
                  /\ last.ret = <<TRUE, Len(last.body), path>>
            /\ last.res # "ok" =>
                  /\ last.ret = None
                  /\ last.post.is_downloaded = last.pre.is_downloaded

\* A download under a file name of the caller's completes.
C4_Witness ==
    /\ last.res = "ok"
    /\ last.args.file_name = "b.gz"
    /\ Len(last.body) = 2
    /\ ~last.pre.is_downloaded

\* C5: when the callback raises an exception that is not a termination request, the
\* download stops at that chunk, the call fails with "Exception during callback
\* execution.", is_downloading is false and is_downloaded and download_path are as
\* before the call.
C5_CallbackFailure ==
    (Ended1 /\ last.raised = "Exception") =>
        /\ last.res = "CallbackError"
        /\ ~last.post.downloading
        /\ last.post.is_downloaded = last.pre.is_downloaded
        /\ last.post.download_path = last.pre.download_path
        /\ last.written_size = last.cblog[Len(last.cblog)].written
        /\ Len(stack) = last.depth

\* The callback fails on the first of two chunks of an Archive downloaded before.
C5_Witness ==
    /\ last.raised = "Exception"
    /\ Len(last.cblog) = 1
    /\ Len(last.body) = 2
    /\ last.written_size = 1
    /\ last.pre.is_downloaded

(***************************************************************************)
(* Properties of the Group and Groups operations and of load(), read off   *)
(* the call that has just ended.                                           *)
(***************************************************************************)
\* C6: after g.add_system(s) returns successfully (the join POST was answered "System
\* updated" and the Group was reloaded), s is a member of g; add_system of a System
\* that is already a member fails with GroupError and sends no POST.
C6_AddThenMember ==
    ll.op = "add_system" =>
        /\ ll.res = "ok" => Member(ll.resolved, ll.post)
        /\ (ll.resolved # NotFound /\ Member(ll.resolved, ll.pre)) =>
              (ll.res = "GroupError" /\ ll.sent = <<>>)

\* C7: remove_system of a System that is not a member fails with GroupError and sends
\* no POST; of a member, when the leave POST is answered "System updated", the System
\* is no longer a member afterwards and the other members and their order are
\* unchanged; for any other message or none the call fails with InvalidServerResponse
\* and the membership list is unchanged.
C7_RemoveSystem ==
    (ll.op = "remove_system" /\ ll.resolved # NotFound) =>
        /\ ~Member(ll.resolved, ll.pre) => (ll.res = "GroupError" /\ ll.sent = <<>>)
        /\ (Member(ll.resolved, ll.pre) /\ ll.answer = "System updated") =>
              /\ ll.res = "ok"
              /\ ~Member(ll.resolved, ll.post)
              /\ ll.post = SelectSeq(ll.pre, LAMBDA x : x # ll.resolved)
        /\ (Member(ll.resolved, ll.pre) /\ ll.answer \in {"Other", "NoMessage"}) =>
              (ll.res = "InvalidServerResponse" /\ ll.post = ll.pre)

Matches(target, list, k) ==
    CASE target.kind = "Group" -> k = target.id
      [] target.kind = "str" -> list[k].name = target.name
      [] target.kind = "int" -> list[k].id = target.id

\* C8: Groups.delete with a name or id that matches no Group fails with GroupError,
\* sends no DELETE and leaves the collection unchanged; with a target that matches a
\* Group it sends exactly one DELETE, to the self link of a matching Group, and when
\* the answer's message is "Group deleted" exactly that Group goes and the others
\* keep their order; for any other message or none it fails with
\* InvalidServerResponse, and whenever it fails the collection is unchanged.
C8_GroupsDelete ==
    ll.op = "delete" =>
        LET hits == {k \in 1..Len(ll.pre) : Matches(ll.target, ll.pre, k)}
        IN  /\ hits = {} => (ll.res = "GroupError" /\ ll.sent = <<>> /\ ll.post = ll.pre)
            /\ hits # {} =>
                  /\ Len(ll.sent) = 1
                  /\ ll.sent[1].method = "DELETE"
                  /\ \E k \in hits :
                        /\ ll.sent[1].url = ll.pre[k].link
                        /\ ll.answer = "Group deleted" =>
                              (ll.res = "ok" /\ ll.post = RemoveAt(ll.pre, k))
                  /\ ll.answer \in {"Other", "NoMessage"} =>
                        ll.res = "InvalidServerResponse"
                  /\ ll.res # "ok" => ll.post = ll.pre

\* C9: after a successful load() of Archives, Destinations, Systems or Groups the
\* collection holds exactly one item per record of the server's response, in
\* response order, and nothing else (so a second load() against an unchanged server
\* leaves the length as it was).
C9_LoadReplaces ==
    (ll.op = "load" /\ ll.res = "ok") => ll.post = ll.resp

Object(c, i) ==
    CASE c = "Archives" -> archives[i]
      [] c = "Destinations" -> destinations[i]
      [] c = "Systems" -> systems[i]

\* C10: a collection built with do_load=False reports is_loaded false and no
\* last_fetched until load() is called on that very instance, whatever was done with
\* the other instances of its class; right after a successful load() is_loaded is
\* true and last_fetched is a UTC timestamp not earlier than the call's start.
C10_LoadedFlags ==
    /\ \A c \in Importable, i \in SysInsts :
          ((c = "Systems" \/ i \in Insts) /\ <<c, i>> \notin loadCalled) =>
              (~IsLoaded(Object(c, i)) /\ LastFetched(Object(c, i)) = <<>>)
    /\ (ll.op = "load" /\ ll.res = "ok") =>
          LET o == Object(ll.cls, ll.inst)
          IN  /\ IsLoaded(o)
              /\ Len(LastFetched(o)) = 1
              /\ LastFetched(o)[1].tz = "UTC"
              /\ LastFetched(o)[1].t >= ll.at

\* C10 witness: a load() that started after the clock had moved has succeeded while
\* another instance of the class has never been loaded.
C10_Witness ==
    /\ ll.op = "load"
    /\ ll.res = "ok"
    /\ ll.at > 0
    /\ \E j \in Insts : <<ll.cls, j>> \notin loadCalled

(***************************************************************************)
(* Systems.register (Systems.py 440-538)                                   *)
(***************************************************************************)
\* The arguments of register, each optional one absent (<<>>) or given; the types
\* are the annotated ones.  A Destination is given by its id.
RegisterArgs ==
    LET valid == [name : {"n"}, host_name : {<<>>, <<"h">>},
                  ip_address : {<<>>, <<"1.2.3.4">>},
                  destination_port : {<<>>, <<514>>, <<6000>>},
                  destination_id : {<<>>, <<6>>}, destination : {<<>>, <<5>>},
                  description : {<<>>, <<"d">>}, auto_delete : {<<>>, <<TRUE>>}]
        plain == [name |-> "n", host_name |-> <<"h">>, ip_address |-> <<"1.2.3.4">>,
                  destination_port |-> <<6000>>, destination_id |-> <<>>,
                  destination |-> <<>>, description |-> <<>>, auto_delete |-> <<>>]
    IN  {a \in valid : (a.description = <<>>) = (a.auto_delete = <<>>)}
        \cup {[plain EXCEPT !.name = ""], [plain EXCEPT !.host_name = <<"">>],
              [plain EXCEPT !.ip_address = <<"1.2.3">>]}

StrLen(s) == IF s = "" THEN 0 ELSE IF s = "1.2.3" THEN 5 ELSE 7

\* Systems.py 469-491: the value checks of the elif chain, for arguments of the
\* annotated types.
ValueChecks(a) ==
    IF a.name = "" THEN "ValueError"
    ELSE IF a.host_name # <<>> /\ a.host_name[1] = "" THEN "ValueError"
    ELSE IF a.ip_address # <<>> /\ StrLen(a.ip_address[1]) < 7 THEN "ValueError"
    ELSE "ok"

\* Systems.py 498: the cases in which host_name must be given.  destination_port
\* absent (None) differs from 514 too.
HostNameRequiredAlways(a) == TRUE
HostNameRequired(a) ==
    a.destination_port # <<514>> \/ a.destination # <<>> \/ a.destination_id # <<>>

\* Systems.py 492-512
ParameterChecksNoSelector(a) ==
    IF a.host_name = <<>> /\ a.ip_address = <<>> THEN "SystemsError"
    ELSE IF HostNameRequired(a) /\ a.host_name = <<>> THEN "SystemsError"
    ELSE IF a.destination_port = <<514>> /\ a.ip_address = <<>> THEN "SystemsError"
    ELSE "ok"
ParameterChecks(a) ==
    IF a.host_name = <<>> /\ a.ip_address = <<>> THEN "SystemsError"
    ELSE IF HostNameRequired(a) /\ a.host_name = <<>> THEN "SystemsError"
    ELSE IF a.destination_port = <<514>> /\ a.ip_address = <<>> THEN "SystemsError"
    ELSE IF a.destination = <<>> /\ a.destination_id = <<>> /\ a.destination_port = <<>>
         THEN "SystemsError"
    ELSE "ok"

Validate(a) == IF ValueChecks(a) # "ok" THEN ValueChecks(a) ELSE ParameterChecks(a)

\* Systems.py 522-527: the destination selector of the body.
SelectorBoth(a) ==
    [destination_id |-> IF a.destination # <<>> THEN a.destination ELSE a.destination_id,
     destination_port |-> a.destination_port]
Selector(a) ==
    IF a.destination # <<>>
    THEN [destination_id |-> a.destination, destination_port |-> <<>>]
    ELSE IF a.destination_id # <<>>
         THEN [destination_id |-> a.destination_id, destination_port |-> <<>>]
         ELSE [destination_id |-> <<>>, destination_port |-> a.destination_port]

\* Systems.py 516-531: json_data['system'], a key that is not set being <<>>.
RegisterBody(a) ==
    [name |-> a.name, hostname |-> a.host_name, ip_address |-> a.ip_address,
     destination_id |-> Selector(a).destination_id,
     destination_port |-> Selector(a).destination_port,
     description |-> a.description, auto_delete |-> a.auto_delete]

RegisterRequest(a) == [method |-> "POST", url |-> "systems.json", system |-> RegisterBody(a)]

\* requests_post raises, or returns the record of the new System; System() raises
\* SystemsError on a record that lacks a key.
NewSysId == 2
RegisterAnswers == {"RequestError", "ok", "SystemsError"}

RegisteredAnyway(list, res) == Append(list, NewSysId)
\* Systems.py 535-537: the System built from the answer is appended once it exists
Registered(list, res) == IF res = "ok" THEN Append(list, NewSysId) ELSE list

\* Systems.register, Systems.py 440-538
Register(i, a, answer) ==
    LET v == Validate(a)
        res == IF v # "ok" THEN v ELSE answer
        list == Items(SYSTEMS, systems[i])
        list2 == Registered(list, res)
    IN  /\ Len(list) < MaxCatalog
        /\ Len(srvSystems) < MaxCatalog
        /\ srvSystems' = IF v = "ok" /\ answer # "RequestError"
                         THEN Append(srvSystems, NewSysId) ELSE srvSystems
        /\ SYSTEMS' = IF systems[i].own THEN SYSTEMS ELSE list2
        /\ systems' = IF systems[i].own THEN [systems EXCEPT ![i].items = list2]
                      ELSE systems
        /\ ll' = [Call("register", "Systems", i, res, list, list2) EXCEPT
                     !.target = a,
                     !.resolved = IF res = "ok" THEN NewSysId ELSE Malformed,
                     !.sent = IF v = "ok" THEN <<RegisterRequest(a)>> ELSE <<>>]
        /\ UNCHANGED <<dlVars, now, srvGroups, srvArchives, srvDestinations, groups,
                       archives, destinations, loadCalled, cls, rlVars>>

InitRegister ==
    /\ InitArchive
    /\ InitCollections
    /\ cls = "Systems"
    /\ srvSystems \in {<<>>, <<0>>}
    /\ srvGroups = <<>>
    /\ srvArchives = <<>>
    /\ srvDestinations = <<>>

NextRegister ==
    \/ \E env \in {e \in LoadEnvs : e.dt = 0} : SystemsLoad("a", env)
    \/ \E a \in RegisterArgs, answer \in RegisterAnswers : Register("a", a, answer)

SpecRegister == InitRegister /\ [][NextRegister]_vars

\* C11: register fails, sends no POST and leaves the collection as it was when
\* neither host_name nor ip_address is given, when none of destination,
\* destination_id and destination_port is given, and when destination_port is 514
\* and ip_address is absent.
C11_RegisterRejects ==
    (/\ ll.op = "register"
     /\ \/ ll.target.host_name = <<>> /\ ll.target.ip_address = <<>>
        \/ /\ ll.target.destination = <<>>
           /\ ll.target.destination_id = <<>>
           /\ ll.target.destination_port = <<>>
        \/ ll.target.destination_port = <<514>> /\ ll.target.ip_address = <<>>)
    => /\ ll.res \in {"SystemsError", "ValueError"}
       /\ ll.sent = <<>>
       /\ ll.post = ll.pre
       /\ Items(SYSTEMS, systems[ll.inst]) = ll.pre

\* C11 witness: a call with a name and a host name, port 514 and no ip address is
\* rejected by a collection that holds Systems.
C11_Witness ==
    /\ ll.op = "register"
    /\ ll.target.name = "n"
    /\ ll.target.host_name = <<"h">>
    /\ ll.target.ip_address = <<>>
    /\ ll.target.destination_port = <<514>>
    /\ ll.res = "SystemsError"
    /\ Len(ll.pre) > 0

ValidValues(a) == ValueChecks(a) = "ok"

\* C12 as stated: register with host_name absent and ip_address given fails with
\* SystemsError before any request whenever destination_port is 514 or a
\* destination or a destination_id is supplied.
C12_Original ==
    (/\ ll.op = "register"
     /\ ValidValues(ll.target)
     /\ ll.target.host_name = <<>>
     /\ ll.target.ip_address # <<>>
     /\ \/ ll.target.destination_port = <<514>>
        \/ ll.target.destination # <<>>
        \/ ll.target.destination_id # <<>>)
    => (ll.res = "SystemsError" /\ ll.sent = <<>>)

\* C12 as the code has it: register with host_name absent and ip_address given fails
\* with SystemsError before any request whenever destination_port is not 514 (absent
\* included) or a destination or a destination_id is supplied; with destination_port
\* 514 and neither of the two it passes validation and the POST carries no hostname.
C12_HostNameMandatory ==
    (/\ ll.op = "register"
     /\ ValidValues(ll.target)
     /\ ll.target.host_name = <<>>
     /\ ll.target.ip_address # <<>>)
    => IF \/ ll.target.destination_port # <<514>>
          \/ ll.target.destination # <<>>
          \/ ll.target.destination_id # <<>>
       THEN ll.res = "SystemsError" /\ ll.sent = <<>>
       ELSE /\ Len(ll.sent) = 1
            /\ ll.sent[1].system.hostname = <<>>
            /\ ll.sent[1].system.destination_port = <<514>>

\* C12 witness: a call without host_name, with an ip address and port 6000 has been
\* rejected.
C12_Witness ==
    /\ ll.op = "register"
    /\ ValidValues(ll.target)
    /\ ll.target.host_name = <<>>
    /\ ll.target.ip_address # <<>>
    /\ ll.target.destination_port = <<6000>>
    /\ ll.target.destination = <<>>
    /\ ll.target.destination_id = <<>>
    /\ ll.res = "SystemsError"

\* C13: every register call that passes validation POSTs a body with exactly one
\* destination selector: destination_id = destination.id when destination is given,
\* else the destination_id given, else destination_port; never both keys.
C13_OneSelector ==
    (ll.op = "register" /\ ll.sent # <<>>) =>
        LET b == ll.sent[1].system
            a == ll.target
        IN  /\ Len(ll.sent) = 1
            /\ (b.destination_id = <<>>) # (b.destination_port = <<>>)
            /\ a.destination # <<>> => b.destination_id = a.destination
            /\ (a.destination = <<>> /\ a.destination_id # <<>>) =>
                  b.destination_id = a.destination_id
            /\ (a.destination = <<>> /\ a.destination_id = <<>>) =>
                  b.destination_port = a.destination_port

\* C13 witness: a call that gave all three selectors has been POSTed and answered.
C13_Witness ==
    /\ ll.op = "register"
    /\ ll.res = "ok"
    /\ ll.target.destination # <<>>
    /\ ll.target.destination_id # <<>>
    /\ ll.target.destination_port # <<>>

(***************************************************************************)
(* Persisted forms: Archive (Archives.py 70-141) and System (Systems.py    *)
(* 79-159).  A datetime is its wall-clock reading t and its tzinfo ("" for *)
(* a naive one); an ISO-8601 string is its digits and its offset suffix.   *)
(***************************************************************************)
TzInfos == {"", "UTC", "+02:00"}
\* datetime.isoformat(): a naive datetime has no suffix, a UTC one "+00:00"
IsoFormatNaive(dt) == [digits |-> dt.t, offset |-> ""]
IsoFormat(dt) ==
    [digits |-> dt.t,
     offset |-> IF dt.tz = "" THEN "" ELSE IF dt.tz = "UTC" THEN "+00:00" ELSE dt.tz]
\* datetime.fromisoformat()
FromIsoFormat(s) ==
    [t |-> s.digits,
     tz |-> IF s.offset = "" THEN "" ELSE IF s.offset = "+00:00" THEN "UTC" ELSE s.offset]
\* dt.replace(tzinfo=timezone.utc): the reading stays, the zone is set
ReplaceUtc(dt) == [dt EXCEPT !.tz = "UTC"]
\* s[:-1] of a timestamp the server sends with a trailing Z
StripLast(s) == [s EXCEPT !.offset = ""]
ServerTime(t) == [digits |-> t, offset |-> "Z"]

\* str.lower() of the duration labels
DurationLabels == {"1 hour", "1 Hour", "1 day", "1 DAY", "2 days"}
LowerKept(s) == s
Lower(s) == IF s = "1 Hour" THEN "1 hour" ELSE IF s = "1 DAY" THEN "1 day" ELSE s

RawArchives ==
    [start : {ServerTime(t) : t \in 0..1}, end : {ServerTime(2)},
     duration_formatted : DurationLabels,
     filename : {"f.tsv.gz"}, filesize : {0, 1}]

\* Archive.__from_raw_archive__, Archives.py 70-99
FromRawArchive(raw) ==
    LET label == Lower(raw.duration_formatted)
    IN  IF label \notin {"1 hour", "1 day"}
        THEN [res |-> "NotImplementedError", obj |-> <<>>]
        ELSE [res |-> "ok",
              obj |-> <<[start_time |-> ReplaceUtc(FromIsoFormat(StripLast(raw.start))),
                         end_time |-> ReplaceUtc(FromIsoFormat(StripLast(raw.end))),
                         formatted_start_time |-> "start",
                         formatted_duration |-> raw.duration_formatted,
                         file_name |-> raw.filename,
                         file_size |-> raw.filesize,
                         link |-> "archives/" \o raw.filename,
                         duration |-> IF label = "1 hour" THEN 60 ELSE 24 * 60,
                         is_downloaded |-> FALSE,
                         download_path |-> <<>>]>>]

\* Archive.__to_dict__, Archives.py 125-141: a dict is a function of its keys
ArchiveToDict(a) ==
    [start_time |-> IsoFormat(a.start_time), end_time |-> IsoFormat(a.end_time),
     formatted_start_time |-> a.formatted_start_time,
     formatted_duration |-> a.formatted_duration, file_name |-> a.file_name,
     file_size |-> a.file_size, link |-> a.link, is_downloaded |-> a.is_downloaded,
     download_path |-> a.download_path]

\* Archive.__from_dict__, Archives.py 101-123: the keys it reads
ArchiveDictKeys ==
    {"start_time", "end_time", "formatted_start_time", "formatted_duration",
     "file_name", "file_size", "link", "duration", "is_downloaded", "download_path"}
ArchiveFromDict(d) ==
    IF ~(ArchiveDictKeys \subseteq DOMAIN d)
    THEN [res |-> "ArchiveError", obj |-> <<>>]
    ELSE [res |-> "ok",
          obj |-> <<[start_time |-> ReplaceUtc(FromIsoFormat(d["start_time"])),
                     end_time |-> ReplaceUtc(FromIsoFormat(d["end_time"])),
                     formatted_start_time |-> d["formatted_start_time"],
                     formatted_duration |-> d["formatted_duration"],
                     file_name |-> d["file_name"], file_size |-> d["file_size"],
                     link |-> d["link"], duration |-> d["duration"],
                     is_downloaded |-> d["is_downloaded"],
                     download_path |-> d["download_path"]]>>]

ObjectCall(op, c, res, pre, post) == Call(op, c, None, res, pre, post)

\* Archive(raw_archive=raw)
ArchiveBuilt(raw) ==
    /\ ll' = [ObjectCall("build", "Archive", FromRawArchive(raw).res, <<>>,
                         FromRawArchive(raw).obj) EXCEPT !.target = raw]
    /\ UNCHANGED <<dlVars, now, srvSystems, srvGroups, srvArchives, srvDestinations,
                   SYSTEMS, systems, groups, archives, destinations, loadCalled, cls, rlVars>>

\* Archive.download has succeeded (Archives.py 252-254)
ArchiveDownloaded ==
    /\ ll.cls = "Archive"
    /\ ll.op = "build"
    /\ ll.res = "ok"
    /\ ll' = [ll EXCEPT !.post = <<[ll.post[1] EXCEPT !.is_downloaded = TRUE,
                                                      !.download_path = <<"d/f">>]>>]
    /\ ll # ll'
    /\ UNCHANGED <<dlVars, now, srvSystems, srvGroups, srvArchives, srvDestinations,
                   SYSTEMS, systems, groups, archives, destinations, loadCalled, cls, rlVars>>

\* Archive(from_dict=a.__to_dict__())
ArchiveRestored ==
    /\ ll.cls = "Archive"
    /\ ll.op = "build"
    /\ ll.res = "ok"
    /\ LET r == ArchiveFromDict(ArchiveToDict(ll.post[1]))
       IN  ll' = ObjectCall("restore", "Archive", r.res, ll.post, r.obj)
    /\ UNCHANGED <<dlVars, now, srvSystems, srvGroups, srvArchives, srvDestinations,
                   SYSTEMS, systems, groups, archives, destinations, loadCalled, cls, rlVars>>

\* A raw system record: last_event_at is null or a timestamp with a trailing Z.
RawSystems ==
    [id : {0, 1}, last_event_at : {<<>>, <<ServerTime(1)>>}, auto_delete : BOOLEAN,
     ip_address : {<<>>, <<"1.2.3.4">>}, hostname : {<<>>, <<"h">>}]

\* System.__from_raw_system__, Systems.py 79-106, at clock reading t.  The result
\* of last_event.replace(tzinfo=...) is dropped (line 93), so last_event is naive.
FromRawSystem(raw, t) ==
    [id |-> raw.id, name |-> SysName(raw.id),
     last_event |-> IF raw.last_event_at = <<>> THEN <<>>
                    ELSE <<FromIsoFormat(StripLast(raw.last_event_at[1]))>>,
     auto_delete |-> raw.auto_delete,
     json_link |-> "systems/" \o ToString(raw.id) \o ".json",
     html_link |-> "systems/" \o ToString(raw.id),
     search_link |-> "events?system_id=" \o ToString(raw.id),
     ip_address |-> raw.ip_address, host_name |-> raw.hostname,
     syslog_host |-> "logs.papertrailapp.com", syslog_port |-> 6000,
     last_fetched |-> <<ReplaceUtc([t |-> t, tz |-> ""])>>]

\* System.__to_dict__, Systems.py 135-159
SystemToDict(s) ==
    [id |-> s.id, name |-> s.name,
     last_event |-> IF s.last_event = <<>> THEN <<>> ELSE <<IsoFormat(s.last_event[1])>>,
     auto_delete |-> s.auto_delete, json_link |-> s.json_link,
     html_link |-> s.html_link, search_link |-> s.search_link,
     ip_address |-> s.ip_address, host_name |-> s.host_name,
     syslog_host |-> s.syslog_host, syslog_port |-> s.syslog_port,
     last_fetched |-> IF s.last_fetched = <<>> THEN <<>>
                      ELSE <<IsoFormat(s.last_fetched[1])>>]

\* System.__from_dict__, Systems.py 108-133
SystemDictKeys ==
    {"id", "name", "last_event", "auto_delete", "json_link", "html_link", "search_link",
     "ip_address", "host_name", "syslog_host", "syslog_port", "last_fetched"}
SystemFromDict(d) ==
    IF ~(SystemDictKeys \subseteq DOMAIN d)
    THEN [res |-> "SystemsError", obj |-> <<>>]
    ELSE [res |-> "ok",
          obj |-> <<[id |-> d["id"], name |-> d["name"],
                     last_event |-> IF d["last_event"] = <<>> THEN <<>>
                                    ELSE <<FromIsoFormat(d["last_event"][1])>>,
                     auto_delete |-> d["auto_delete"], json_link |-> d["json_link"],
                     html_link |-> d["html_link"], search_link |-> d["search_link"],
                     ip_address |-> d["ip_address"], host_name |-> d["host_name"],
                     syslog_host |-> d["syslog_host"], syslog_port |-> d["syslog_port"],
                     last_fetched |-> IF d["last_fetched"] = <<>> THEN <<>>
                                      ELSE <<ReplaceUtc(FromIsoFormat(
                                                d["last_fetched"][1]))>>]>>]

\* Snapshots a caller may hold: those __to_dict__ writes, and hand-made ones with a
\* last_event that carries an offset, or with no last_fetched, or one without offset.
SnapshotTimes(t) == {<<>>} \cup {<<[digits |-> t, offset |-> o]>> : o \in {"", "+00:00", "+02:00"}}
SystemSnapshots ==
    {[SystemToDict(FromRawSystem(raw, 0)) EXCEPT !.last_event = le, !.last_fetched = lf] :
        raw \in {r \in RawSystems : r.auto_delete /\ r.ip_address = <<>>},
        le \in SnapshotTimes(1), lf \in SnapshotTimes(2)}

\* System(raw_system=raw, last_fetched=...)
SystemBuilt(raw, t) ==
    /\ ll' = ObjectCall("build", "System", "ok", <<>>, <<FromRawSystem(raw, t)>>)
    /\ UNCHANGED <<dlVars, now, srvSystems, srvGroups, srvArchives, srvDestinations,
                   SYSTEMS, systems, groups, archives, destinations, loadCalled, cls, rlVars>>

\* System(from_dict=d)
SystemLoaded(d) ==
    /\ ll' = ObjectCall("build", "System", SystemFromDict(d).res, <<>>,
                        SystemFromDict(d).obj)
    /\ UNCHANGED <<dlVars, now, srvSystems, srvGroups, srvArchives, srvDestinations,
                   SYSTEMS, systems, groups, archives, destinations, loadCalled, cls, rlVars>>

\* System(from_dict=s.__to_dict__())
SystemRestored ==
    /\ ll.cls = "System"
    /\ ll.op = "build"
    /\ ll.res = "ok"
    /\ LET r == SystemFromDict(SystemToDict(ll.post[1]))
       IN  ll' = ObjectCall("restore", "System", r.res, ll.post, r.obj)
    /\ UNCHANGED <<dlVars, now, srvSystems, srvGroups, srvArchives, srvDestinations,
                   SYSTEMS, systems, groups, archives, destinations, loadCalled, cls, rlVars>>

InitSnapshot ==
    /\ InitArchive
    /\ InitCollections
    /\ NoServer
    /\ cls = "Snapshot"

NextSnapshot ==
    \/ \E raw \in RawArchives : ArchiveBuilt(raw)
    \/ ArchiveDownloaded
    \/ ArchiveRestored
    \/ \E raw \in RawSystems, t \in 0..MaxClock : SystemBuilt(raw, t)
    \/ \E d \in SystemSnapshots : SystemLoaded(d)
    \/ SystemRestored

SpecSnapshot == InitSnapshot /\ [][NextSnapshot]_vars

\* C14: restoring an Archive from the persisted form of an Archive a that was built
\* from a raw record, before or after a download, succeeds and yields an Archive
\* equal to a in every field.
C14_ArchiveRoundTrip ==
    (ll.cls = "Archive" /\ ll.op = "restore") => (ll.res = "ok" /\ ll.post = ll.pre)

\* C15: restoring a System from the persisted form of a System s, with or without a
\* last-event time, built from a raw record or from a snapshot, yields a System equal
\* to s in every field.
C15_SystemRoundTrip ==
    (ll.cls = "System" /\ ll.op = "restore") => (ll.res = "ok" /\ ll.post = ll.pre)

\* C15 witness: a System restored from a snapshot, with a last-event time that
\* carries an offset, has been persisted and restored again.
C15_Witness ==
    /\ ll.cls = "System"
    /\ ll.op = "restore"
    /\ ll.pre[1].last_event # <<>>
    /\ ll.pre[1].last_event[1].tz = "+02:00"
    /\ ll.pre[1].last_fetched # <<>>

(***************************************************************************)
(* requests_get, requests_post and __raise_for_http_error__ (common.py)    *)
(***************************************************************************)
Statuses == {200, 201, 304, 400, 401, 404, 405, 429, 500}
\* The response body: not JSON, a JSON object with or without a message key, or a
\* JSON array.
HttpBodies == {"NotJson", "ObjectWithMessage", "ObjectNoMessage", "Array"}
HttpResponses ==
    [status_code : Statuses, body : HttpBodies, url : {"u1", "u2"},
     headers : {"h1", "h2"}]
Transports == {"ok", "ReadTimeout", "RequestException"}

Raised(kind, carried) == [kind |-> kind, carried |-> carried]

\* error_dict['message'], common.py 43-46: a dict without the key raises KeyError,
\* which is caught; a list raises TypeError, which is not.
MessageOf(body) ==
    IF body = "ObjectWithMessage" THEN Raised("BadRequestError", <<"message">>)
    ELSE IF body = "ObjectNoMessage" THEN Raised("InvalidServerResponse", <<>>)
    ELSE Raised("TypeError", <<>>)

\* __raise_for_http_error__, common.py 37-62
RaiseForHttpError(request) ==
    CASE request.status_code = 400 ->
            IF request.body = "NotJson" THEN Raised("InvalidServerResponse", <<>>)
            ELSE MessageOf(request.body)
      [] request.status_code = 401 -> Raised("AuthenticationError", <<>>)
      [] request.status_code = 404 -> Raised("NotFoundError", <<request.url>>)
      [] request.status_code = 405 -> Raised("MethodNotAllowedError", <<>>)
      [] request.status_code = 429 -> Raised("RateLimitError", <<request.headers>>)
      [] OTHER -> Raised("UnhandledHTTPError", <<request.status_code>>)

\* requests.Response.raise_for_status(): HTTPError for 400..599 only
RaisesForStatus(request) == request.status_code >= 400 /\ request.status_code < 600

Returned(body) == [kind |-> "ok", carried |-> <<body>>]

\* requests_get, common.py 65-91, and requests_post, common.py 94-124, after the
\* headers are built
RequestsResult(method, transport, request) ==
    IF transport = "ReadTimeout" THEN Raised("RequestReadTimeout", <<request.url>>)
    ELSE IF transport = "RequestException"
         THEN Raised("UnhandledRequestsError", <<request.url, method>>)
    ELSE IF RaisesForStatus(request) THEN RaiseForHttpError(request)
    ELSE IF request.body = "NotJson" THEN Raised("InvalidServerResponse", <<>>)
    ELSE Returned(request.body)

HttpCall(op, transport, request, r) ==
    [Call(op, "common", None, r.kind, <<>>, r.carried) EXCEPT
        !.target = request, !.answer = transport]

RequestsGet(transport, request) ==
    /\ ll' = HttpCall("requests_get", transport, request,
                      RequestsResult("GET", transport, request))
    /\ UNCHANGED <<dlVars, now, srvSystems, srvGroups, srvArchives, srvDestinations,
                   SYSTEMS, systems, groups, archives, destinations, loadCalled, cls, rlVars>>

RequestsPost(transport, request) ==
    /\ ll' = HttpCall("requests_post", transport, request,
                      RequestsResult("POST", transport, request))
    /\ UNCHANGED <<dlVars, now, srvSystems, srvGroups, srvArchives, srvDestinations,
                   SYSTEMS, systems, groups, archives, destinations, loadCalled, cls, rlVars>>

\* __raise_for_http_error__ called on a response
MapperCalled(request) ==
    /\ ll' = HttpCall("raise_for_http_error", "ok", request, RaiseForHttpError(request))
    /\ UNCHANGED <<dlVars, now, srvSystems, srvGroups, srvArchives, srvDestinations,
                   SYSTEMS, systems, groups, archives, destinations, loadCalled, cls, rlVars>>

InitHttp ==
    /\ InitArchive
    /\ InitCollections
    /\ NoServer
    /\ cls = "common"

NextHttp ==
    \/ \E t \in Transports, r \in HttpResponses : RequestsGet(t, r)
    \/ \E t \in Transports, r \in HttpResponses : RequestsPost(t, r)
    \/ \E r \in HttpResponses : MapperCalled(r)

SpecHttp == InitHttp /\ [][NextHttp]_vars

Is2xx(status) == status >= 200 /\ status < 300

\* C16: the status-code mapper never returns and raises, for every non-2xx status,
\* the one error kind of that status: 400 BadRequestError with the body's message
\* (InvalidServerResponse when the body is not JSON or has no message), 401
\* AuthenticationError, 404 NotFoundError with the URL, 405 MethodNotAllowedError,
\* 429 RateLimitError with the headers, any other status UnhandledHTTPError with the
\* status; so requests_get and requests_post return no body for a non-2xx response.
C16_StatusMapper ==
    (/\ ll.cls = "common"
     /\ ll.answer = "ok"
     /\ ~Is2xx(ll.target.status_code))
    => LET s == ll.target.status_code
       IN  /\ ll.res # "ok"
           /\ ll.op = "raise_for_http_error" =>
                 /\ s = 400 =>
                       IF ll.target.body = "ObjectWithMessage"
                       THEN ll.res = "BadRequestError" /\ ll.post = <<"message">>
                       ELSE ll.res = "InvalidServerResponse"
                 /\ s = 401 => ll.res = "AuthenticationError"
                 /\ s = 404 => (ll.res = "NotFoundError" /\ ll.post = <<ll.target.url>>)
                 /\ s = 405 => ll.res = "MethodNotAllowedError"
                 /\ s = 429 =>
                       (ll.res = "RateLimitError" /\ ll.post = <<ll.target.headers>>)
                 /\ s \notin {400, 401, 404, 405, 429} =>
                       (ll.res = "UnhandledHTTPError" /\ ll.post = <<s>>)

(***************************************************************************)
(* Destinations.__getitem__ (Destinations.py 257-265) and                  *)
(* Archives.__getitem__ (Archives.py 466-515).  An item of a loaded list   *)
(* is the number n of its record: the Destination with id n, the Archive   *)
(* with file name FileNameOf(n) that starts at n o'clock UTC.              *)
(***************************************************************************)
IndexError == [res |-> "IndexError", found |-> <<>>]
Found(x) == [res |-> "ok", found |-> <<x>>]

\* list[i] of Python: a negative i counts from the end
IdIndex(seq, i) ==
    IF \E k \in 1..Len(seq) : seq[k] = i THEN Found(i) ELSE IndexError
ListIndex(seq, i) ==
    IF i >= 0 /\ i < Len(seq) THEN Found(seq[i + 1])
    ELSE IF i < 0 /\ Len(seq) + i >= 0 THEN Found(seq[Len(seq) + i + 1])
    ELSE IndexError

IntKeys == (0 - 3)..2
IntKey(i) == [kind |-> "int", id |-> i, name |-> "", t |-> 0, tz |-> ""]

\* Destinations.__getitem__ with an int
DestinationsGetItem(i, item) ==
    LET list == Items(DESTINATIONS, destinations[i])
        r == ListIndex(list, item)
    IN  /\ ll' = [Call("getitem", "Destinations", i, r.res, list, r.found) EXCEPT
                     !.target = IntKey(item)]
        /\ UNCHANGED <<dlVars, now, srvSystems, srvGroups, srvArchives, srvDestinations,
                       SYSTEMS, systems, groups, archives, destinations, loadCalled, cls, rlVars>>

FileNameOf(n) == "f" \o ToString(n)
StartOf(n) == [t |-> n, tz |-> "UTC"]

\* The hours a zone is ahead of UTC
UtcOffset(tz) == IF tz = "+02:00" THEN 2 ELSE 0
\* dt.astimezone(timezone.utc) of an aware datetime
AsTimezoneUtc(dt) == [t |-> dt.t - UtcOffset(dt.tz), tz |-> "UTC"]
\* datetime.__eq__: an aware and a naive datetime are never equal; two aware ones
\* are equal when they are the same instant
DatetimeEq(a, b) ==
    IF (a.tz = "") # (b.tz = "") THEN FALSE
    ELSE a.t - UtcOffset(a.tz) = b.t - UtcOffset(b.tz)

\* Archives.py 478-485: the result of item.replace(tzinfo=...) is dropped, so a
\* naive key stays naive
SearchDate(dt) == IF dt.tz # "" THEN AsTimezoneUtc(dt) ELSE dt

\* Archives.py 486-489: the loop raises on the first archive that does not match,
\* and an empty list falls out of the loop: the method returns None
FindByStart(list, dt) ==
    IF list = <<>> THEN [res |-> "returns None", found |-> <<>>]
    ELSE IF DatetimeEq(StartOf(list[1]), SearchDate(dt)) THEN Found(list[1])
    ELSE IndexError

\* Archives.py 492-496
FindByName(list, name) ==
    LET hits == {k \in 1..Len(list) : FileNameOf(list[k]) = name}
    IN  IF hits = {} THEN IndexError ELSE Found(list[First(hits)])

ArchiveKeys ==
    [kind : {"str"}, id : {0}, name : {FileNameOf(n) : n \in 0..2}, t : {0}, tz : {""}]
    \cup [kind : {"datetime"}, id : {0}, name : {""}, t : 0..3, tz : TzInfos]
    \cup {IntKey(i) : i \in {0 - 1, 0, 1}}

\* Archives.__getitem__ with a datetime, an int or a str
ArchivesGetItem(i, key) ==
    LET list == Items(ARCHIVES, archives[i])
        r == CASE key.kind = "datetime" -> FindByStart(list, [t |-> key.t, tz |-> key.tz])
               [] key.kind = "int" -> ListIndex(list, key.id)
               [] key.kind = "str" -> FindByName(list, key.name)
    IN  /\ ll' = [Call("getitem", "Archives", i, r.res, list, r.found) EXCEPT
                     !.target = key]
        /\ UNCHANGED <<dlVars, now, srvSystems, srvGroups, srvArchives, srvDestinations,
                       SYSTEMS, systems, groups, archives, destinations, loadCalled, cls, rlVars>>

InitIndex ==
    /\ InitArchive
    /\ InitCollections
    /\ NoServer
    /\ cls \in {"Archives", "Destinations"}

NextIndex ==
    \/ ServerChanges
    \/ cls = "Archives" /\ \E env \in {e \in LoadEnvs : e.dt = 0} : ArchivesLoad("a", env)
    \/ cls = "Destinations" /\
          \E env \in {e \in LoadEnvs : e.dt = 0} : DestinationsLoad("a", env)
    \/ cls = "Archives" /\ \E key \in ArchiveKeys : ArchivesGetItem("a", key)
    \/ cls = "Destinations" /\ \E item \in IntKeys : DestinationsGetItem("a", item)

SpecIndex == InitIndex /\ [][NextIndex]_vars

\* C17 as stated: Destinations[i] returns the Destination whose id is i when the
\* collection holds one, raises a not-found error when it holds none, and never
\* returns a Destination with another id.
C17_Original ==
    (ll.op = "getitem" /\ ll.cls = "Destinations") =>
        IF \E k \in 1..Len(ll.pre) : ll.pre[k] = ll.target.id
        THEN ll.res = "ok" /\ ll.post = <<ll.target.id>>
        ELSE ll.res = "IndexError"

\* C17 as the code has it: Destinations[i] returns the Destination at list position
\* i (a negative i counting from the end), whatever its id, and raises IndexError
\* when the list has no such position.
C17_PositionLookup ==
    (ll.op = "getitem" /\ ll.cls = "Destinations") =>
        LET n == Len(ll.pre)
            i == ll.target.id
        IN  IF 0 - n <= i /\ i < n
            THEN ll.res = "ok" /\ ll.post = <<ll.pre[IF i >= 0 THEN i + 1 ELSE n + i + 1]>>
            ELSE ll.res = "IndexError" /\ ll.post = <<>>

\* C17 witness: Destinations[0] has returned the Destination with id 1 from a
\* collection that holds the Destination with id 0 too.
C17_Witness ==
    /\ ll.op = "getitem"
    /\ ll.cls = "Destinations"
    /\ ll.target.id = 0
    /\ ll.post = <<1>>
    /\ ll.pre = <<1, 0>>

\* C18: Archives[key] with a file name or a start time (brought to UTC, a naive one
\* taken as UTC) returns the first archive in load order that matches whenever one
\* matches at any position, and raises IndexError exactly when none does, an empty
\* collection included.
C18_ArchivesLookup ==
    (ll.op = "getitem" /\ ll.cls = "Archives" /\ ll.target.kind \in {"str", "datetime"}) =>
        LET key == ll.target
            hits == {k \in 1..Len(ll.pre) :
                        IF key.kind = "str" THEN FileNameOf(ll.pre[k]) = key.name
                        ELSE ll.pre[k] = key.t - UtcOffset(key.tz)}
        IN  IF hits = {} THEN ll.res = "IndexError"
            ELSE ll.res = "ok" /\ ll.post = <<ll.pre[First(hits)]>>

(***************************************************************************)
(* Group.update (Group.py 295-334)                                         *)
(***************************************************************************)
UpdateArgs == [name : {<<>>, <<"A">>, <<"B">>}, system_wildcard : {<<>>, <<"w*">>, <<"x*">>}]

\* Group.py 311-316: a value equal to the current one is warned about, and the
\* parameter is left as it was given.
Effective(given, current) == given
EffectiveChanged(given, current) == IF given = current THEN <<>> ELSE given

\* Group.py 324-328: json_data['group'], a key that is not set being <<>>
UpdateBody(g, a) ==
    [name |-> Effective(a.name, <<g.name>>),
     system_wildcard |-> Effective(a.system_wildcard, g.system_wildcard)]
UpdateRequest(g, a) == [method |-> "PUT", url |-> g.link, group |-> UpdateBody(g, a)]

\* What the server does with a PUT it accepts: the keys of the body are set.
SrvUpdate(gs, link, body) ==
    [k \in 1..Len(gs) |->
        IF gs[k].link # link THEN gs[k]
        ELSE [gs[k] EXCEPT !.name = IF body.name = <<>> THEN @ ELSE body.name[1],
                           !.system_wildcard = IF body.system_wildcard = <<>> THEN @
                                               ELSE body.system_wildcard]]

\* requests_put: raises, or returns the decoded answer.
PutAnswers == {"RequestError", "ok"}
UpdateEnvs == [put : PutAnswers, cat : {"ok", "RequestError"}]

\* Group.update, Group.py 295-334: the PUT, then __from_raw_group__ on the answer,
\* which sends a second request when the catalog is not loaded.
GroupUpdate(i, a, env, other) ==
    /\ groups[i] # <<>>
    /\ LET g == groups[i][1]
           cat == systems["Group"]
           early == IF a.name = <<>> /\ a.system_wildcard = <<>>
                    THEN "ParameterError" ELSE "ok"
           put == early = "ok" /\ env.put = "ok"
           srv2 == IF put THEN SrvUpdate(srvGroups, g.link, UpdateBody(g, a))
                   ELSE srvGroups
           rec == IF put THEN Record(g, srv2) ELSE <<>>
           two == rec # <<>> /\ ~IsLoaded(cat)
           sys2 == IF two THEN SystemsAfter(srvSystems, other) ELSE srvSystems
           p == IF rec # <<>> THEN Populated(g, rec[1], sys2, env.cat)
                ELSE [res |-> IF early # "ok" THEN early ELSE "RequestError", group |-> g,
                      list |-> SYSTEMS, cat |-> cat, loads |-> 0]
       IN  /\ ~two => (other.op = "none" /\ env.cat = "ok")
           /\ p.loads = 1 => Len(Items(SYSTEMS, cat)) + Len(sys2) <= MaxCatalog
           /\ srvGroups' = srv2
           /\ srvSystems' = sys2
           /\ SYSTEMS' = p.list
           /\ systems' = [systems EXCEPT !["Group"] = p.cat]
           /\ groups' = [groups EXCEPT ![i] = <<p.group>>]
           /\ loadCalled' =
                 loadCalled \cup (IF p.loads = 1 THEN {<<"Systems", "Group">>} ELSE {})
           /\ ll' = [Call("update", "Group", i, p.res, <<g>>, <<p.group>>) EXCEPT
                        !.target = a,
                        !.answer = IF early = "ok" THEN env.put ELSE None,
                        !.resp = rec,
                        !.sent = IF early = "ok" THEN <<UpdateRequest(g, a)>> ELSE <<>>,
                        !.catalog = CatalogUse(cat, SYSTEMS, p.loads)]
    /\ UNCHANGED <<dlVars, now, srvArchives, srvDestinations, archives, destinations, cls,
                   rlVars>>

InitUpdate ==
    /\ InitArchive
    /\ InitCollections
    /\ cls = "Group"
    /\ srvSystems = <<0, 1>>
    /\ \E m \in {<<>>, <<1>>}, w \in {<<>>, <<"w*">>} :
          srvGroups = <<[ServerGroup(1, "A", m) EXCEPT !.system_wildcard = w]>>
    /\ srvArchives = <<>>
    /\ srvDestinations = <<>>

NextUpdate ==
    \/ \E get \in BuildEnvs : GroupNew("a", 1, get)
    \/ \E d \in Snapshots : GroupFromDict("a", d)
    \/ \E a \in UpdateArgs, env \in UpdateEnvs, other \in SystemOthers :
          GroupUpdate("a", a, env, other)

SpecUpdate == InitUpdate /\ [][NextUpdate]_vars

\* C19: Group.update with neither name nor system_wildcard fails with ParameterError
\* and sends no request; a supplied value that equals the Group's current one is
\* left out of the PUT body, which holds exactly the supplied fields whose value
\* differs from the current one; after a successful PUT the Group's fields equal
\* the server's response.
C19_GroupUpdate ==
    ll.op = "update" =>
        LET a == ll.target
            g == ll.pre[1]
        IN  /\ (a.name = <<>> /\ a.system_wildcard = <<>>) =>
                  (ll.res = "ParameterError" /\ ll.sent = <<>>)
            /\ ll.sent # <<>> =>
                  /\ ll.sent[1].group.name = EffectiveChanged(a.name, <<g.name>>)
                  /\ ll.sent[1].group.system_wildcard =
                        EffectiveChanged(a.system_wildcard, g.system_wildcard)
            /\ ll.res = "ok" =>
                  /\ ll.post[1].id = ll.resp[1].id
                  /\ ll.post[1].name = ll.resp[1].name
                  /\ ll.post[1].system_wildcard = ll.resp[1].system_wildcard
                  /\ ll.post[1].link = ll.resp[1].link

(***************************************************************************)
(* Papertrail.__init__ (Papertrail.py 38-82).                              *)
(***************************************************************************)
\* C20: with a snapshot no load() of a sub-collection is called, whatever do_load
\* is; without one and with do_load the loads are called in the order archives,
\* destinations, systems, groups, usage, each only after the one before it has
\* succeeded, and the facade is loaded only after all five have succeeded (a
\* failing load leaves it unloaded and the later collections unloaded); without a
\* snapshot and without do_load nothing is loaded and the facade stays unloaded.
C20_FacadeConstruction ==
    ll.op = "Papertrail" =>
        LET a == ll.target
            order == <<"Archives", "Destinations", "Systems", "Groups", "Usage">>
            called == {c \in Range(order) : <<c, "a">> \in loadCalled}
        IN  /\ (a.from_dict # <<>> \/ ~a.do_load) => called = {}
            /\ (a.from_dict = <<>> /\ ~a.do_load) =>
                  (ll.res = "ok" /\ ll.post # <<>> /\ ~ll.post[1].is_loaded)
            /\ (a.from_dict = <<>> /\ a.do_load) =>
                  /\ "Archives" \in called
                  /\ \A k \in 2..5 : order[k] \in called => order[k - 1] \in called
                  /\ (ll.post # <<>> /\ ll.post[1].is_loaded) => called = Range(order)

(***************************************************************************)
(* Properties of Archive.__from_raw_archive__.                             *)
(***************************************************************************)
HourLabels == {"1 hour", "1 Hour"}
DayLabels == {"1 day", "1 DAY"}

\* C21: an Archive built from a raw record whose duration label is "1 hour" in any
\* letter case has duration 60, one whose label is "1 day" in any letter case has
\* duration 1440, and for every other label the construction fails and yields no
\* Archive.
C21_DurationFromLabel ==
    (ll.cls = "Archive" /\ ll.op = "build" /\ ll.pre = <<>>)
    => LET label == ll.target.duration_formatted
       IN  /\ label \in HourLabels
                 => (ll.res = "ok" /\ Len(ll.post) = 1 /\ ll.post[1].duration = 60)
           /\ label \in DayLabels
                 => (ll.res = "ok" /\ Len(ll.post) = 1 /\ ll.post[1].duration = 1440)
           /\ label \notin HourLabels \cup DayLabels
                 => (ll.res # "ok" /\ ll.post = <<>>)
           /\ ll.post # <<>> => ll.post[1].duration \in {60, 1440}

\* C21 witness: an Archive has been built from a label that differs from "1 day" in
\* letter case only.
C21_Witness ==
    /\ ll.cls = "Archive"
    /\ ll.op = "build"
    /\ ll.target.duration_formatted = "1 DAY"
    /\ ll.res = "ok"
    /\ ll.post[1].duration = 1440
    /\ ll.post[1].is_downloaded = FALSE

(***************************************************************************)
(* Properties of Group.__from_raw_group__ and of the catalog it reads.     *)
(***************************************************************************)
\* C22: after a Group is built or re-populated from a raw group record (by the
\* constructor, by Group.reload, by Group.update, or by the reload that ends a
\* successful add_system), its member Systems have exactly the ids the record lists,
\* in the record's order.
C22_MemberIds ==
    /\ (ll.res = "ok" /\ ll.cls = "Group" /\ ll.op \in {"build", "reload", "update"})
          => ll.post[1].systems = ll.resp[1].systems
    /\ (ll.res = "ok" /\ ll.op = "add_system") => ll.post = ll.resp[1].systems

(***************************************************************************)
(* The catalog of Group.py and the calls that resolve members in it.       *)
(***************************************************************************)
\* Another client registers the next System with the server.
SystemAppears ==
    /\ Len(srvSystems) \in SysIds
    /\ srvSystems' = Append(srvSystems, Len(srvSystems))
    /\ ll' = NoOp
    /\ UNCHANGED <<dlVars, now, srvGroups, srvArchives, srvDestinations, SYSTEMS, systems,
                   groups, archives, destinations, loadCalled, cls, rlVars>>

\* Another client makes a System of the server a member of group 1.
SystemJoinsElsewhere(s) ==
    /\ Member(s, srvSystems)
    /\ srvGroups' = SrvJoin(srvGroups, 1, s)
    /\ srvGroups' # srvGroups
    /\ ll' = NoOp
    /\ UNCHANGED <<dlVars, now, srvSystems, srvArchives, srvDestinations, SYSTEMS, systems,
                   groups, archives, destinations, loadCalled, cls, rlVars>>

\* The server knows System 0 and, in some runs, a group with that member; ids are
\* given in order, so a System's id is its place in the server's list.
InitCatalog ==
    /\ InitArchive
    /\ InitCollections
    /\ cls = "Catalog"
    /\ srvSystems = <<0>>
    /\ srvGroups \in {<<>>, <<ServerGroup(1, "A", <<0>>)>>}
    /\ srvArchives = <<>>
    /\ srvDestinations = <<>>

NextCatalog ==
    \/ SystemAppears
    \/ \E s \in SysIds : SystemJoinsElsewhere(s)
    \/ \E get \in BuildEnvs : GroupNew("a", 1, get)
    \/ \E d \in Snapshots : GroupFromDict("a", d)
    \/ \E target \in SystemTargets, env \in AddEnvs :
          \E other \in (IF env.post = "System updated" THEN GroupOthers ELSE {NoOther}) :
             AddSystem("a", target, env, other)
    \/ \E target \in SystemTargets, answer \in PostAnswers :
          RemoveSystem("a", target, answer)
    \/ \E target \in SystemTargets : GroupsCreate("a", target)

SpecCatalog == InitCatalog /\ [][NextCatalog]_vars

\* C23: when a Group is built from a raw record, a catalog that has never loaded is
\* loaded once before the members are resolved and a loaded one is not loaded
\* again; a listed id the catalog lacks makes the call reload the catalog and retry,
\* so that the construction fails only for an id the server does not list.
C23_CatalogOnDemand ==
    (ll.op = "build" /\ ll.cls = "Group" /\ ll.res # "RequestError")
    => LET c == ll.catalog[1]
           first == IF c.loaded THEN 0 ELSE 1
           held == IF c.loaded THEN Range(c.before) ELSE Range(srvSystems)
           listed == Range(ll.resp[1].systems)
           absent == listed \ held
       IN  /\ absent = {} => c.loads = first
           /\ absent # {} => c.loads > first
           /\ listed \subseteq Range(srvSystems) => ll.res = "ok"

\* C24: every member resolution (a Group built from a record or from a snapshot,
\* add_system, remove_system, Groups.create) reads the one catalog and loads it on
\* demand when it has never loaded, so each of them resolves every System the
\* server lists; Groups.create resolves the targets add_system resolves.
C24_OneCatalog ==
    /\ (/\ ll.cls = "Group"
        /\ \/ ll.op \in {"build", "add_system", "remove_system"}
           \/ ll.op = "restore" /\ ll.resp[1].system_ids # <<>>
        /\ ~ll.catalog[1].loaded
        /\ ll.res # "RequestError")
          => IsLoaded(systems["Group"])
    /\ ll.op = "create" => ll.res # ImportGroups

(***************************************************************************)
(* Properties of load(): the order of its effects, and its failures.       *)
(***************************************************************************)
ClassList(c) ==
    CASE c = "Archives" -> ARCHIVES
      [] c = "Destinations" -> DESTINATIONS
      [] c = "Systems" -> SYSTEMS

\* C25: load() of Archives, Destinations, Systems or Groups replaces the item list
\* before it stamps the fetch time: whenever a load() call, failed ones included,
\* has left a new last_fetched, the items are the complete list built from the
\* call's response.
C25_ReplaceThenStamp ==
    (/\ ll.op = "load"
     /\ ll.cls \in Importable
     /\ LastFetched(Object(ll.cls, ll.inst)) # ll.was[1].last_fetched)
    => ll.post = ll.resp

\* C28: a load() of Archives, Destinations, Systems or Groups that fails (the
\* request, or a record at any position of the response) leaves the collection's
\* items, is_loaded and last_fetched as they were before the call.
C28_LoadAllOrNothing ==
    (ll.op = "load" /\ ll.cls \in Importable /\ ll.res # "ok")
    => View(ClassList(ll.cls), Object(ll.cls, ll.inst)) = ll.was[1]

(***************************************************************************)
(* Properties of Systems.register as a change of the collection.           *)
(***************************************************************************)
\* C26: Systems.register changes the collection exactly when it succeeds: a
\* successful call leaves the previous items followed by the one System built from
\* the server's answer, and returns that System; a call that fails, at validation or
\* at the request or on the answer's record, leaves items and order as they were.
C26_RegisterAppendsOnSuccess ==
    ll.op = "register" =>
        /\ Items(SYSTEMS, systems[ll.inst]) = ll.post
        /\ ll.res = "ok" =>
              /\ srvSystems # <<>>
              /\ ll.post = Append(ll.pre, srvSystems[Len(srvSystems)])
              /\ ll.resolved = ll.post[Len(ll.post)]
        /\ ll.res # "ok" => ll.post = ll.pre
        /\ (ll.post # ll.pre) <=> (ll.res = "ok")

\* C26 witness: a register call whose POST was sent has failed on a collection that
\* holds Systems.
C26_Witness ==
    /\ ll.op = "register"
    /\ ll.res \in {"RequestError", "SystemsError"}
    /\ ll.sent # <<>>
    /\ Len(ll.pre) > 0
    /\ ll.post = ll.pre

(***************************************************************************)
(* The in-progress flag of Archive.download after the call has ended.      *)
(***************************************************************************)
\* C27: when a download call that was not itself rejected as re-entrant has ended,
\* by returning or by raising, the in-progress flag is false; and a call is rejected
\* with "Already downloading." only when it is made while a download is running.
C27_FlagClearedOnExit ==
    /\ (Ended1 /\ last.res # "AlreadyDownloading") => ~last.post.downloading
    /\ last.res = "AlreadyDownloading" => last.depth > 0

(***************************************************************************)
(* Independence of the Systems instances.                                  *)
(***************************************************************************)
\* C29: load() on one Systems instance never changes the items of another: an
\* instance built with do_load=False on which load() was never called holds no
\* item, whatever was loaded through the other instances, the catalog of Group.py
\* included.
C29_InstancesIndependent ==
    \A j \in SysInsts :
        <<"Systems", j>> \notin loadCalled => Items(SYSTEMS, systems[j]) = <<>>

(***************************************************************************)
(* RateLimits.parse_limit_header (RateLimits.py 24-44).  A header value is *)
(* absent (<<>>) or a string; the state holds None (<<>>) or an int.       *)
(***************************************************************************)
HeaderValues == {<<>>, <<"1">>, <<"7">>, <<"soon">>}
HeaderDicts == [limit : HeaderValues, remaining : HeaderValues, reset : HeaderValues]

\* int(headers[key]): KeyError for a missing key, ValueError for a string that is
\* no number
IntOf(v) ==
    IF v = <<>> THEN [res |-> "KeyError", val |-> <<>>]
    ELSE IF v = <<"1">> THEN [res |-> "ok", val |-> <<1>>]
    ELSE IF v = <<"7">> THEN [res |-> "ok", val |-> <<7>>]
    ELSE [res |-> "ValueError", val |-> <<>>]

RateState == [limit |-> limit, remaining |-> remaining, reset |-> reset]

\* RateLimits.py 41-43: each global is assigned as soon as its header is converted.
Parsed(h, state) ==
    LET l == IntOf(h.limit)
        m == IntOf(h.remaining)
        r == IntOf(h.reset)
        s1 == [state EXCEPT !.limit = l.val]
        s2 == [s1 EXCEPT !.remaining = m.val]
        s3 == [s2 EXCEPT !.reset = r.val]
    IN  IF l.res # "ok" THEN [res |-> l.res, state |-> state]
        ELSE IF m.res # "ok" THEN [res |-> m.res, state |-> s1]
        ELSE IF r.res # "ok" THEN [res |-> r.res, state |-> s2]
        ELSE [res |-> "ok", state |-> s3]

\* parse_limit_header(headers)
ParseLimitHeader(h) ==
    LET p == Parsed(h, RateState)
    IN  /\ limit' = p.state.limit
        /\ remaining' = p.state.remaining
        /\ reset' = p.state.reset
        /\ ll' = [Call("parse_limit_header", "RateLimits", None, p.res,
                       <<RateState>>, <<p.state>>) EXCEPT !.target = h]
        /\ UNCHANGED <<dlVars, now, srvSystems, srvGroups, srvArchives, srvDestinations,
                       SYSTEMS, systems, groups, archives, destinations, loadCalled,
                       cls>>

\* RateLimits.py 24-26: the three globals are None when the module is imported.
InitRate ==
    /\ InitArchive
    /\ InitCollections
    /\ NoServer
    /\ cls = "RateLimits"

NextRate == \E h \in HeaderDicts : ParseLimitHeader(h)

SpecRate == InitRate /\ [][NextRate]_vars

\* C30: parse_limit_header is atomic on the rate-limit state: with three numeric
\* headers the call succeeds and limit, remaining and reset take the header values;
\* when it fails because a header is missing or not a number, none of the three has
\* changed.
C30_ParseAtomic ==
    ll.op = "parse_limit_header" =>
        /\ RateState = ll.post[1]
        /\ (\A k \in {"limit", "remaining", "reset"} : IntOf(ll.target[k]).res = "ok")
              => /\ ll.res = "ok"
                 /\ \A k \in {"limit", "remaining", "reset"} :
                       ll.post[1][k] = IntOf(ll.target[k]).val
        /\ (\E k \in {"limit", "remaining", "reset"} : IntOf(ll.target[k]).res # "ok")
              => /\ ll.res \in {"KeyError", "ValueError"}
                 /\ ll.post = ll.pre
====
